---------------------------- MODULE Spec2Model ----------------------------
(***************************************************************************)
(* Smart Resume Analyser: the text functions of extractor.py, scorer.py,   *)
(* suggester.py and parser.py, and the analysis run of app.py.             *)
(*                                                                         *)
(* A Python str is the sequence of its Unicode code points (integers); a   *)
(* literal is written as the tuple of its code points with the text in a   *)
(* comment beside it.  The character classes and the case mapping are the  *)
(* tables of the Unicode database of the interpreter (14.0.0).             *)
(*                                                                         *)
(* Spec applies one of the functions to drawn inputs; AppSpec is one run   *)
(* of the app.py script after the Analyze button was pressed.              *)
(***************************************************************************)
EXTENDS Integers, Sequences, FiniteSets, Bags, TLC

VARIABLES
    resume_text,      \* the text the functions are applied to
    job_description,  \* the job posting text
    fn,               \* Spec: the function applied last ("none" before any)
    ret,              \* Spec: what that call returned (or the exception raised)
    pc,               \* AppSpec: the statement of app.py to run next
    uploaded_file,    \* AppSpec: the upload, or NoUpload
    tmp_path,         \* AppSpec: the path of the temp file written for the upload
    tmp_files,        \* AppSpec: the temp files that exist on disk
    calls,            \* AppSpec: the functions app.py has invoked, in order
    info,             \* AppSpec: what extract_all returned
    score,            \* AppSpec: what calculate_match_score returned
    keywords,         \* AppSpec: what get_matching_keywords returned
    suggestions,      \* AppSpec: what get_resume_suggestions returned
    shown,            \* AppSpec: the result sections rendered so far
    errors            \* AppSpec: the st.error messages of the run

-----------------------------------------------------------------------------
(* Bounds of the input pools *)

\* at most this many fragments are concatenated into an input text
MaxFrags == 2
\* at most this many pages (paragraphs) in an uploaded document
MaxPages == 2

-----------------------------------------------------------------------------
(* Characters and the str methods the code uses *)

UpperChars == <<65,66,67,68,69,70,71,72,73,74,75,76,77,78,79,80,81,82,83,84,85,86,87,88,89,90>> (* ABCDEFGHIJKLMNOPQRSTUVWXYZ *)
LowerChars == <<97,98,99,100,101,102,103,104,105,106,107,108,109,110,111,112,113,114,115,116,117,118,119,120,121,122>> (* abcdefghijklmnopqrstuvwxyz *)
AsciiDigitChars == {48 (* 0 *), 49 (* 1 *), 50 (* 2 *), 51 (* 3 *), 52 (* 4 *), 53 (* 5 *), 54 (* 6 *), 55 (* 7 *), 56 (* 8 *), 57 (* 9 *)}
Range(s) == {s[i] : i \in DOMAIN s}
UpperSet == Range(UpperChars)
LowerSet == Range(LowerChars)
\* A-Za-z of a character class of a pattern
AlphaChars == UpperSet \cup LowerSet

(* The classes of the str type, which are those of the Unicode database of  *)
(* the interpreter (version 14.0.0), as tables of code point ranges.       *)

\* the characters str.isspace(), str.strip() and \s of the re module take as
\* whitespace
SpaceChars == {
    9, 10, 11, 12, 13, 28, 29, 30, 31, 32, 133, 160, 5760, 8192, 8193,
    8194, 8195, 8196, 8197, 8198, 8199, 8200, 8201, 8202, 8232, 8233, 8239, 8287, 12288 }

\* the ranges <<first, last>> of the code points for which str.isdigit() holds
IsdigitRanges == <<
    <<48,57>>, <<178,179>>, <<185,185>>, <<1632,1641>>, <<1776,1785>>,
    <<1984,1993>>, <<2406,2415>>, <<2534,2543>>, <<2662,2671>>, <<2790,2799>>,
    <<2918,2927>>, <<3046,3055>>, <<3174,3183>>, <<3302,3311>>, <<3430,3439>>,
    <<3558,3567>>, <<3664,3673>>, <<3792,3801>>, <<3872,3881>>, <<4160,4169>>,
    <<4240,4249>>, <<4969,4977>>, <<6112,6121>>, <<6160,6169>>, <<6470,6479>>,
    <<6608,6618>>, <<6784,6793>>, <<6800,6809>>, <<6992,7001>>, <<7088,7097>>,
    <<7232,7241>>, <<7248,7257>>, <<8304,8304>>, <<8308,8313>>, <<8320,8329>>,
    <<9312,9320>>, <<9332,9340>>, <<9352,9360>>, <<9450,9450>>, <<9461,9469>>,
    <<9471,9471>>, <<10102,10110>>, <<10112,10120>>, <<10122,10130>>,
    <<42528,42537>>, <<43216,43225>>, <<43264,43273>>, <<43472,43481>>,
    <<43504,43513>>, <<43600,43609>>, <<44016,44025>>, <<65296,65305>>,
    <<66720,66729>>, <<68160,68163>>, <<68912,68921>>, <<69216,69224>>,
    <<69714,69722>>, <<69734,69743>>, <<69872,69881>>, <<69942,69951>>,
    <<70096,70105>>, <<70384,70393>>, <<70736,70745>>, <<70864,70873>>,
    <<71248,71257>>, <<71360,71369>>, <<71472,71481>>, <<71904,71913>>,
    <<72016,72025>>, <<72784,72793>>, <<73040,73049>>, <<73120,73129>>,
    <<92768,92777>>, <<92864,92873>>, <<93008,93017>>, <<120782,120831>>,
    <<123200,123209>>, <<123632,123641>>, <<125264,125273>>,
    <<127232,127242>>, <<130032,130041>> >>

\* the ranges of the code points \d of a str pattern matches
DecimalRanges == <<
    <<48,57>>, <<1632,1641>>, <<1776,1785>>, <<1984,1993>>, <<2406,2415>>,
    <<2534,2543>>, <<2662,2671>>, <<2790,2799>>, <<2918,2927>>, <<3046,3055>>,
    <<3174,3183>>, <<3302,3311>>, <<3430,3439>>, <<3558,3567>>, <<3664,3673>>,
    <<3792,3801>>, <<3872,3881>>, <<4160,4169>>, <<4240,4249>>, <<6112,6121>>,
    <<6160,6169>>, <<6470,6479>>, <<6608,6617>>, <<6784,6793>>, <<6800,6809>>,
    <<6992,7001>>, <<7088,7097>>, <<7232,7241>>, <<7248,7257>>,
    <<42528,42537>>, <<43216,43225>>, <<43264,43273>>, <<43472,43481>>,
    <<43504,43513>>, <<43600,43609>>, <<44016,44025>>, <<65296,65305>>,
    <<66720,66729>>, <<68912,68921>>, <<69734,69743>>, <<69872,69881>>,
    <<69942,69951>>, <<70096,70105>>, <<70384,70393>>, <<70736,70745>>,
    <<70864,70873>>, <<71248,71257>>, <<71360,71369>>, <<71472,71481>>,
    <<71904,71913>>, <<72016,72025>>, <<72784,72793>>, <<73040,73049>>,
    <<73120,73129>>, <<92768,92777>>, <<92864,92873>>, <<93008,93017>>,
    <<120782,120831>>, <<123200,123209>>, <<123632,123641>>,
    <<125264,125273>>, <<130032,130041>> >>

\* the ranges of the code points \w of a str pattern matches
WordRanges == <<
    <<48,57>>, <<65,90>>, <<95,95>>, <<97,122>>, <<170,170>>, <<178,179>>,
    <<181,181>>, <<185,186>>, <<188,190>>, <<192,214>>, <<216,246>>,
    <<248,705>>, <<710,721>>, <<736,740>>, <<748,748>>, <<750,750>>,
    <<880,884>>, <<886,887>>, <<890,893>>, <<895,895>>, <<902,902>>,
    <<904,906>>, <<908,908>>, <<910,929>>, <<931,1013>>, <<1015,1153>>,
    <<1162,1327>>, <<1329,1366>>, <<1369,1369>>, <<1376,1416>>, <<1488,1514>>,
    <<1519,1522>>, <<1568,1610>>, <<1632,1641>>, <<1646,1647>>, <<1649,1747>>,
    <<1749,1749>>, <<1765,1766>>, <<1774,1788>>, <<1791,1791>>, <<1808,1808>>,
    <<1810,1839>>, <<1869,1957>>, <<1969,1969>>, <<1984,2026>>, <<2036,2037>>,
    <<2042,2042>>, <<2048,2069>>, <<2074,2074>>, <<2084,2084>>, <<2088,2088>>,
    <<2112,2136>>, <<2144,2154>>, <<2160,2183>>, <<2185,2190>>, <<2208,2249>>,
    <<2308,2361>>, <<2365,2365>>, <<2384,2384>>, <<2392,2401>>, <<2406,2415>>,
    <<2417,2432>>, <<2437,2444>>, <<2447,2448>>, <<2451,2472>>, <<2474,2480>>,
    <<2482,2482>>, <<2486,2489>>, <<2493,2493>>, <<2510,2510>>, <<2524,2525>>,
    <<2527,2529>>, <<2534,2545>>, <<2548,2553>>, <<2556,2556>>, <<2565,2570>>,
    <<2575,2576>>, <<2579,2600>>, <<2602,2608>>, <<2610,2611>>, <<2613,2614>>,
    <<2616,2617>>, <<2649,2652>>, <<2654,2654>>, <<2662,2671>>, <<2674,2676>>,
    <<2693,2701>>, <<2703,2705>>, <<2707,2728>>, <<2730,2736>>, <<2738,2739>>,
    <<2741,2745>>, <<2749,2749>>, <<2768,2768>>, <<2784,2785>>, <<2790,2799>>,
    <<2809,2809>>, <<2821,2828>>, <<2831,2832>>, <<2835,2856>>, <<2858,2864>>,
    <<2866,2867>>, <<2869,2873>>, <<2877,2877>>, <<2908,2909>>, <<2911,2913>>,
    <<2918,2927>>, <<2929,2935>>, <<2947,2947>>, <<2949,2954>>, <<2958,2960>>,
    <<2962,2965>>, <<2969,2970>>, <<2972,2972>>, <<2974,2975>>, <<2979,2980>>,
    <<2984,2986>>, <<2990,3001>>, <<3024,3024>>, <<3046,3058>>, <<3077,3084>>,
    <<3086,3088>>, <<3090,3112>>, <<3114,3129>>, <<3133,3133>>, <<3160,3162>>,
    <<3165,3165>>, <<3168,3169>>, <<3174,3183>>, <<3192,3198>>, <<3200,3200>>,
    <<3205,3212>>, <<3214,3216>>, <<3218,3240>>, <<3242,3251>>, <<3253,3257>>,
    <<3261,3261>>, <<3293,3294>>, <<3296,3297>>, <<3302,3311>>, <<3313,3314>>,
    <<3332,3340>>, <<3342,3344>>, <<3346,3386>>, <<3389,3389>>, <<3406,3406>>,
    <<3412,3414>>, <<3416,3425>>, <<3430,3448>>, <<3450,3455>>, <<3461,3478>>,
    <<3482,3505>>, <<3507,3515>>, <<3517,3517>>, <<3520,3526>>, <<3558,3567>>,
    <<3585,3632>>, <<3634,3635>>, <<3648,3654>>, <<3664,3673>>, <<3713,3714>>,
    <<3716,3716>>, <<3718,3722>>, <<3724,3747>>, <<3749,3749>>, <<3751,3760>>,
    <<3762,3763>>, <<3773,3773>>, <<3776,3780>>, <<3782,3782>>, <<3792,3801>>,
    <<3804,3807>>, <<3840,3840>>, <<3872,3891>>, <<3904,3911>>, <<3913,3948>>,
    <<3976,3980>>, <<4096,4138>>, <<4159,4169>>, <<4176,4181>>, <<4186,4189>>,
    <<4193,4193>>, <<4197,4198>>, <<4206,4208>>, <<4213,4225>>, <<4238,4238>>,
    <<4240,4249>>, <<4256,4293>>, <<4295,4295>>, <<4301,4301>>, <<4304,4346>>,
    <<4348,4680>>, <<4682,4685>>, <<4688,4694>>, <<4696,4696>>, <<4698,4701>>,
    <<4704,4744>>, <<4746,4749>>, <<4752,4784>>, <<4786,4789>>, <<4792,4798>>,
    <<4800,4800>>, <<4802,4805>>, <<4808,4822>>, <<4824,4880>>, <<4882,4885>>,
    <<4888,4954>>, <<4969,4988>>, <<4992,5007>>, <<5024,5109>>, <<5112,5117>>,
    <<5121,5740>>, <<5743,5759>>, <<5761,5786>>, <<5792,5866>>, <<5870,5880>>,
    <<5888,5905>>, <<5919,5937>>, <<5952,5969>>, <<5984,5996>>, <<5998,6000>>,
    <<6016,6067>>, <<6103,6103>>, <<6108,6108>>, <<6112,6121>>, <<6128,6137>>,
    <<6160,6169>>, <<6176,6264>>, <<6272,6276>>, <<6279,6312>>, <<6314,6314>>,
    <<6320,6389>>, <<6400,6430>>, <<6470,6509>>, <<6512,6516>>, <<6528,6571>>,
    <<6576,6601>>, <<6608,6618>>, <<6656,6678>>, <<6688,6740>>, <<6784,6793>>,
    <<6800,6809>>, <<6823,6823>>, <<6917,6963>>, <<6981,6988>>, <<6992,7001>>,
    <<7043,7072>>, <<7086,7141>>, <<7168,7203>>, <<7232,7241>>, <<7245,7293>>,
    <<7296,7304>>, <<7312,7354>>, <<7357,7359>>, <<7401,7404>>, <<7406,7411>>,
    <<7413,7414>>, <<7418,7418>>, <<7424,7615>>, <<7680,7957>>, <<7960,7965>>,
    <<7968,8005>>, <<8008,8013>>, <<8016,8023>>, <<8025,8025>>, <<8027,8027>>,
    <<8029,8029>>, <<8031,8061>>, <<8064,8116>>, <<8118,8124>>, <<8126,8126>>,
    <<8130,8132>>, <<8134,8140>>, <<8144,8147>>, <<8150,8155>>, <<8160,8172>>,
    <<8178,8180>>, <<8182,8188>>, <<8304,8305>>, <<8308,8313>>, <<8319,8329>>,
    <<8336,8348>>, <<8450,8450>>, <<8455,8455>>, <<8458,8467>>, <<8469,8469>>,
    <<8473,8477>>, <<8484,8484>>, <<8486,8486>>, <<8488,8488>>, <<8490,8493>>,
    <<8495,8505>>, <<8508,8511>>, <<8517,8521>>, <<8526,8526>>, <<8528,8585>>,
    <<9312,9371>>, <<9450,9471>>, <<10102,10131>>, <<11264,11492>>,
    <<11499,11502>>, <<11506,11507>>, <<11517,11517>>, <<11520,11557>>,
    <<11559,11559>>, <<11565,11565>>, <<11568,11623>>, <<11631,11631>>,
    <<11648,11670>>, <<11680,11686>>, <<11688,11694>>, <<11696,11702>>,
    <<11704,11710>>, <<11712,11718>>, <<11720,11726>>, <<11728,11734>>,
    <<11736,11742>>, <<11823,11823>>, <<12293,12295>>, <<12321,12329>>,
    <<12337,12341>>, <<12344,12348>>, <<12353,12438>>, <<12445,12447>>,
    <<12449,12538>>, <<12540,12543>>, <<12549,12591>>, <<12593,12686>>,
    <<12690,12693>>, <<12704,12735>>, <<12784,12799>>, <<12832,12841>>,
    <<12872,12879>>, <<12881,12895>>, <<12928,12937>>, <<12977,12991>>,
    <<13312,19903>>, <<19968,42124>>, <<42192,42237>>, <<42240,42508>>,
    <<42512,42539>>, <<42560,42606>>, <<42623,42653>>, <<42656,42735>>,
    <<42775,42783>>, <<42786,42888>>, <<42891,42954>>, <<42960,42961>>,
    <<42963,42963>>, <<42965,42969>>, <<42994,43009>>, <<43011,43013>>,
    <<43015,43018>>, <<43020,43042>>, <<43056,43061>>, <<43072,43123>>,
    <<43138,43187>>, <<43216,43225>>, <<43250,43255>>, <<43259,43259>>,
    <<43261,43262>>, <<43264,43301>>, <<43312,43334>>, <<43360,43388>>,
    <<43396,43442>>, <<43471,43481>>, <<43488,43492>>, <<43494,43518>>,
    <<43520,43560>>, <<43584,43586>>, <<43588,43595>>, <<43600,43609>>,
    <<43616,43638>>, <<43642,43642>>, <<43646,43695>>, <<43697,43697>>,
    <<43701,43702>>, <<43705,43709>>, <<43712,43712>>, <<43714,43714>>,
    <<43739,43741>>, <<43744,43754>>, <<43762,43764>>, <<43777,43782>>,
    <<43785,43790>>, <<43793,43798>>, <<43808,43814>>, <<43816,43822>>,
    <<43824,43866>>, <<43868,43881>>, <<43888,44002>>, <<44016,44025>>,
    <<44032,55203>>, <<55216,55238>>, <<55243,55291>>, <<63744,64109>>,
    <<64112,64217>>, <<64256,64262>>, <<64275,64279>>, <<64285,64285>>,
    <<64287,64296>>, <<64298,64310>>, <<64312,64316>>, <<64318,64318>>,
    <<64320,64321>>, <<64323,64324>>, <<64326,64433>>, <<64467,64829>>,
    <<64848,64911>>, <<64914,64967>>, <<65008,65019>>, <<65136,65140>>,
    <<65142,65276>>, <<65296,65305>>, <<65313,65338>>, <<65345,65370>>,
    <<65382,65470>>, <<65474,65479>>, <<65482,65487>>, <<65490,65495>>,
    <<65498,65500>>, <<65536,65547>>, <<65549,65574>>, <<65576,65594>>,
    <<65596,65597>>, <<65599,65613>>, <<65616,65629>>, <<65664,65786>>,
    <<65799,65843>>, <<65856,65912>>, <<65930,65931>>, <<66176,66204>>,
    <<66208,66256>>, <<66273,66299>>, <<66304,66339>>, <<66349,66378>>,
    <<66384,66421>>, <<66432,66461>>, <<66464,66499>>, <<66504,66511>>,
    <<66513,66517>>, <<66560,66717>>, <<66720,66729>>, <<66736,66771>>,
    <<66776,66811>>, <<66816,66855>>, <<66864,66915>>, <<66928,66938>>,
    <<66940,66954>>, <<66956,66962>>, <<66964,66965>>, <<66967,66977>>,
    <<66979,66993>>, <<66995,67001>>, <<67003,67004>>, <<67072,67382>>,
    <<67392,67413>>, <<67424,67431>>, <<67456,67461>>, <<67463,67504>>,
    <<67506,67514>>, <<67584,67589>>, <<67592,67592>>, <<67594,67637>>,
    <<67639,67640>>, <<67644,67644>>, <<67647,67669>>, <<67672,67702>>,
    <<67705,67742>>, <<67751,67759>>, <<67808,67826>>, <<67828,67829>>,
    <<67835,67867>>, <<67872,67897>>, <<67968,68023>>, <<68028,68047>>,
    <<68050,68096>>, <<68112,68115>>, <<68117,68119>>, <<68121,68149>>,
    <<68160,68168>>, <<68192,68222>>, <<68224,68255>>, <<68288,68295>>,
    <<68297,68324>>, <<68331,68335>>, <<68352,68405>>, <<68416,68437>>,
    <<68440,68466>>, <<68472,68497>>, <<68521,68527>>, <<68608,68680>>,
    <<68736,68786>>, <<68800,68850>>, <<68858,68899>>, <<68912,68921>>,
    <<69216,69246>>, <<69248,69289>>, <<69296,69297>>, <<69376,69415>>,
    <<69424,69445>>, <<69457,69460>>, <<69488,69505>>, <<69552,69579>>,
    <<69600,69622>>, <<69635,69687>>, <<69714,69743>>, <<69745,69746>>,
    <<69749,69749>>, <<69763,69807>>, <<69840,69864>>, <<69872,69881>>,
    <<69891,69926>>, <<69942,69951>>, <<69956,69956>>, <<69959,69959>>,
    <<69968,70002>>, <<70006,70006>>, <<70019,70066>>, <<70081,70084>>,
    <<70096,70106>>, <<70108,70108>>, <<70113,70132>>, <<70144,70161>>,
    <<70163,70187>>, <<70272,70278>>, <<70280,70280>>, <<70282,70285>>,
    <<70287,70301>>, <<70303,70312>>, <<70320,70366>>, <<70384,70393>>,
    <<70405,70412>>, <<70415,70416>>, <<70419,70440>>, <<70442,70448>>,
    <<70450,70451>>, <<70453,70457>>, <<70461,70461>>, <<70480,70480>>,
    <<70493,70497>>, <<70656,70708>>, <<70727,70730>>, <<70736,70745>>,
    <<70751,70753>>, <<70784,70831>>, <<70852,70853>>, <<70855,70855>>,
    <<70864,70873>>, <<71040,71086>>, <<71128,71131>>, <<71168,71215>>,
    <<71236,71236>>, <<71248,71257>>, <<71296,71338>>, <<71352,71352>>,
    <<71360,71369>>, <<71424,71450>>, <<71472,71483>>, <<71488,71494>>,
    <<71680,71723>>, <<71840,71922>>, <<71935,71942>>, <<71945,71945>>,
    <<71948,71955>>, <<71957,71958>>, <<71960,71983>>, <<71999,71999>>,
    <<72001,72001>>, <<72016,72025>>, <<72096,72103>>, <<72106,72144>>,
    <<72161,72161>>, <<72163,72163>>, <<72192,72192>>, <<72203,72242>>,
    <<72250,72250>>, <<72272,72272>>, <<72284,72329>>, <<72349,72349>>,
    <<72368,72440>>, <<72704,72712>>, <<72714,72750>>, <<72768,72768>>,
    <<72784,72812>>, <<72818,72847>>, <<72960,72966>>, <<72968,72969>>,
    <<72971,73008>>, <<73030,73030>>, <<73040,73049>>, <<73056,73061>>,
    <<73063,73064>>, <<73066,73097>>, <<73112,73112>>, <<73120,73129>>,
    <<73440,73458>>, <<73648,73648>>, <<73664,73684>>, <<73728,74649>>,
    <<74752,74862>>, <<74880,75075>>, <<77712,77808>>, <<77824,78894>>,
    <<82944,83526>>, <<92160,92728>>, <<92736,92766>>, <<92768,92777>>,
    <<92784,92862>>, <<92864,92873>>, <<92880,92909>>, <<92928,92975>>,
    <<92992,92995>>, <<93008,93017>>, <<93019,93025>>, <<93027,93047>>,
    <<93053,93071>>, <<93760,93846>>, <<93952,94026>>, <<94032,94032>>,
    <<94099,94111>>, <<94176,94177>>, <<94179,94179>>, <<94208,100343>>,
    <<100352,101589>>, <<101632,101640>>, <<110576,110579>>,
    <<110581,110587>>, <<110589,110590>>, <<110592,110882>>,
    <<110928,110930>>, <<110948,110951>>, <<110960,111355>>,
    <<113664,113770>>, <<113776,113788>>, <<113792,113800>>,
    <<113808,113817>>, <<119520,119539>>, <<119648,119672>>,
    <<119808,119892>>, <<119894,119964>>, <<119966,119967>>,
    <<119970,119970>>, <<119973,119974>>, <<119977,119980>>,
    <<119982,119993>>, <<119995,119995>>, <<119997,120003>>,
    <<120005,120069>>, <<120071,120074>>, <<120077,120084>>,
    <<120086,120092>>, <<120094,120121>>, <<120123,120126>>,
    <<120128,120132>>, <<120134,120134>>, <<120138,120144>>,
    <<120146,120485>>, <<120488,120512>>, <<120514,120538>>,
    <<120540,120570>>, <<120572,120596>>, <<120598,120628>>,
    <<120630,120654>>, <<120656,120686>>, <<120688,120712>>,
    <<120714,120744>>, <<120746,120770>>, <<120772,120779>>,
    <<120782,120831>>, <<122624,122654>>, <<123136,123180>>,
    <<123191,123197>>, <<123200,123209>>, <<123214,123214>>,
    <<123536,123565>>, <<123584,123627>>, <<123632,123641>>,
    <<124896,124902>>, <<124904,124907>>, <<124909,124910>>,
    <<124912,124926>>, <<124928,125124>>, <<125127,125135>>,
    <<125184,125251>>, <<125259,125259>>, <<125264,125273>>,
    <<126065,126123>>, <<126125,126127>>, <<126129,126132>>,
    <<126209,126253>>, <<126255,126269>>, <<126464,126467>>,
    <<126469,126495>>, <<126497,126498>>, <<126500,126500>>,
    <<126503,126503>>, <<126505,126514>>, <<126516,126519>>,
    <<126521,126521>>, <<126523,126523>>, <<126530,126530>>,
    <<126535,126535>>, <<126537,126537>>, <<126539,126539>>,
    <<126541,126543>>, <<126545,126546>>, <<126548,126548>>,
    <<126551,126551>>, <<126553,126553>>, <<126555,126555>>,
    <<126557,126557>>, <<126559,126559>>, <<126561,126562>>,
    <<126564,126564>>, <<126567,126570>>, <<126572,126578>>,
    <<126580,126583>>, <<126585,126588>>, <<126590,126590>>,
    <<126592,126601>>, <<126603,126619>>, <<126625,126627>>,
    <<126629,126633>>, <<126635,126651>>, <<127232,127244>>,
    <<130032,130041>>, <<131072,173791>>, <<173824,177976>>,
    <<177984,178205>>, <<178208,183969>>, <<183984,191456>>,
    <<194560,195101>>, <<196608,201546>> >>

\* the ranges of the cased code points
CasedRanges == <<
    <<65,90>>, <<97,122>>, <<170,170>>, <<181,181>>, <<186,186>>, <<192,214>>,
    <<216,246>>, <<248,442>>, <<444,447>>, <<452,659>>, <<661,696>>,
    <<704,705>>, <<736,740>>, <<837,837>>, <<880,883>>, <<886,887>>,
    <<890,893>>, <<895,895>>, <<902,902>>, <<904,906>>, <<908,908>>,
    <<910,929>>, <<931,1013>>, <<1015,1153>>, <<1162,1327>>, <<1329,1366>>,
    <<1376,1416>>, <<4256,4293>>, <<4295,4295>>, <<4301,4301>>, <<4304,4346>>,
    <<4349,4351>>, <<5024,5109>>, <<5112,5117>>, <<7296,7304>>, <<7312,7354>>,
    <<7357,7359>>, <<7424,7615>>, <<7680,7957>>, <<7960,7965>>, <<7968,8005>>,
    <<8008,8013>>, <<8016,8023>>, <<8025,8025>>, <<8027,8027>>, <<8029,8029>>,
    <<8031,8061>>, <<8064,8116>>, <<8118,8124>>, <<8126,8126>>, <<8130,8132>>,
    <<8134,8140>>, <<8144,8147>>, <<8150,8155>>, <<8160,8172>>, <<8178,8180>>,
    <<8182,8188>>, <<8305,8305>>, <<8319,8319>>, <<8336,8348>>, <<8450,8450>>,
    <<8455,8455>>, <<8458,8467>>, <<8469,8469>>, <<8473,8477>>, <<8484,8484>>,
    <<8486,8486>>, <<8488,8488>>, <<8490,8493>>, <<8495,8500>>, <<8505,8505>>,
    <<8508,8511>>, <<8517,8521>>, <<8526,8526>>, <<8544,8575>>, <<8579,8580>>,
    <<9398,9449>>, <<11264,11492>>, <<11499,11502>>, <<11506,11507>>,
    <<11520,11557>>, <<11559,11559>>, <<11565,11565>>, <<42560,42605>>,
    <<42624,42653>>, <<42786,42887>>, <<42891,42894>>, <<42896,42954>>,
    <<42960,42961>>, <<42963,42963>>, <<42965,42969>>, <<42997,42998>>,
    <<43000,43002>>, <<43824,43866>>, <<43868,43880>>, <<43888,43967>>,
    <<64256,64262>>, <<64275,64279>>, <<65313,65338>>, <<65345,65370>>,
    <<66560,66639>>, <<66736,66771>>, <<66776,66811>>, <<66928,66938>>,
    <<66940,66954>>, <<66956,66962>>, <<66964,66965>>, <<66967,66977>>,
    <<66979,66993>>, <<66995,67001>>, <<67003,67004>>, <<67456,67456>>,
    <<67459,67461>>, <<67463,67504>>, <<67506,67514>>, <<68736,68786>>,
    <<68800,68850>>, <<71840,71903>>, <<93760,93823>>, <<119808,119892>>,
    <<119894,119964>>, <<119966,119967>>, <<119970,119970>>,
    <<119973,119974>>, <<119977,119980>>, <<119982,119993>>,
    <<119995,119995>>, <<119997,120003>>, <<120005,120069>>,
    <<120071,120074>>, <<120077,120084>>, <<120086,120092>>,
    <<120094,120121>>, <<120123,120126>>, <<120128,120132>>,
    <<120134,120134>>, <<120138,120144>>, <<120146,120485>>,
    <<120488,120512>>, <<120514,120538>>, <<120540,120570>>,
    <<120572,120596>>, <<120598,120628>>, <<120630,120654>>,
    <<120656,120686>>, <<120688,120712>>, <<120714,120744>>,
    <<120746,120770>>, <<120772,120779>>, <<122624,122633>>,
    <<122635,122654>>, <<125184,125251>>, <<127280,127305>>,
    <<127312,127337>>, <<127344,127369>> >>

\* the ranges of the case-ignorable code points
CaseIgnorableRanges == <<
    <<39,39>>, <<46,46>>, <<58,58>>, <<94,94>>, <<96,96>>, <<168,168>>,
    <<173,173>>, <<175,175>>, <<180,180>>, <<183,184>>, <<688,879>>,
    <<884,885>>, <<890,890>>, <<900,901>>, <<903,903>>, <<1155,1161>>,
    <<1369,1369>>, <<1375,1375>>, <<1425,1469>>, <<1471,1471>>, <<1473,1474>>,
    <<1476,1477>>, <<1479,1479>>, <<1524,1524>>, <<1536,1541>>, <<1552,1562>>,
    <<1564,1564>>, <<1600,1600>>, <<1611,1631>>, <<1648,1648>>, <<1750,1757>>,
    <<1759,1768>>, <<1770,1773>>, <<1807,1807>>, <<1809,1809>>, <<1840,1866>>,
    <<1958,1968>>, <<2027,2037>>, <<2042,2042>>, <<2045,2045>>, <<2070,2093>>,
    <<2137,2139>>, <<2184,2184>>, <<2192,2193>>, <<2200,2207>>, <<2249,2306>>,
    <<2362,2362>>, <<2364,2364>>, <<2369,2376>>, <<2381,2381>>, <<2385,2391>>,
    <<2402,2403>>, <<2417,2417>>, <<2433,2433>>, <<2492,2492>>, <<2497,2500>>,
    <<2509,2509>>, <<2530,2531>>, <<2558,2558>>, <<2561,2562>>, <<2620,2620>>,
    <<2625,2626>>, <<2631,2632>>, <<2635,2637>>, <<2641,2641>>, <<2672,2673>>,
    <<2677,2677>>, <<2689,2690>>, <<2748,2748>>, <<2753,2757>>, <<2759,2760>>,
    <<2765,2765>>, <<2786,2787>>, <<2810,2815>>, <<2817,2817>>, <<2876,2876>>,
    <<2879,2879>>, <<2881,2884>>, <<2893,2893>>, <<2901,2902>>, <<2914,2915>>,
    <<2946,2946>>, <<3008,3008>>, <<3021,3021>>, <<3072,3072>>, <<3076,3076>>,
    <<3132,3132>>, <<3134,3136>>, <<3142,3144>>, <<3146,3149>>, <<3157,3158>>,
    <<3170,3171>>, <<3201,3201>>, <<3260,3260>>, <<3263,3263>>, <<3270,3270>>,
    <<3276,3277>>, <<3298,3299>>, <<3328,3329>>, <<3387,3388>>, <<3393,3396>>,
    <<3405,3405>>, <<3426,3427>>, <<3457,3457>>, <<3530,3530>>, <<3538,3540>>,
    <<3542,3542>>, <<3633,3633>>, <<3636,3642>>, <<3654,3662>>, <<3761,3761>>,
    <<3764,3772>>, <<3782,3782>>, <<3784,3789>>, <<3864,3865>>, <<3893,3893>>,
    <<3895,3895>>, <<3897,3897>>, <<3953,3966>>, <<3968,3972>>, <<3974,3975>>,
    <<3981,3991>>, <<3993,4028>>, <<4038,4038>>, <<4141,4144>>, <<4146,4151>>,
    <<4153,4154>>, <<4157,4158>>, <<4184,4185>>, <<4190,4192>>, <<4209,4212>>,
    <<4226,4226>>, <<4229,4230>>, <<4237,4237>>, <<4253,4253>>, <<4348,4348>>,
    <<4957,4959>>, <<5906,5908>>, <<5938,5939>>, <<5970,5971>>, <<6002,6003>>,
    <<6068,6069>>, <<6071,6077>>, <<6086,6086>>, <<6089,6099>>, <<6103,6103>>,
    <<6109,6109>>, <<6155,6159>>, <<6211,6211>>, <<6277,6278>>, <<6313,6313>>,
    <<6432,6434>>, <<6439,6440>>, <<6450,6450>>, <<6457,6459>>, <<6679,6680>>,
    <<6683,6683>>, <<6742,6742>>, <<6744,6750>>, <<6752,6752>>, <<6754,6754>>,
    <<6757,6764>>, <<6771,6780>>, <<6783,6783>>, <<6823,6823>>, <<6832,6862>>,
    <<6912,6915>>, <<6964,6964>>, <<6966,6970>>, <<6972,6972>>, <<6978,6978>>,
    <<7019,7027>>, <<7040,7041>>, <<7074,7077>>, <<7080,7081>>, <<7083,7085>>,
    <<7142,7142>>, <<7144,7145>>, <<7149,7149>>, <<7151,7153>>, <<7212,7219>>,
    <<7222,7223>>, <<7288,7293>>, <<7376,7378>>, <<7380,7392>>, <<7394,7400>>,
    <<7405,7405>>, <<7412,7412>>, <<7416,7417>>, <<7468,7530>>, <<7544,7544>>,
    <<7579,7679>>, <<8125,8125>>, <<8127,8129>>, <<8141,8143>>, <<8157,8159>>,
    <<8173,8175>>, <<8189,8190>>, <<8203,8207>>, <<8216,8217>>, <<8228,8228>>,
    <<8231,8231>>, <<8234,8238>>, <<8288,8292>>, <<8294,8303>>, <<8305,8305>>,
    <<8319,8319>>, <<8336,8348>>, <<8400,8432>>, <<11388,11389>>,
    <<11503,11505>>, <<11631,11631>>, <<11647,11647>>, <<11744,11775>>,
    <<11823,11823>>, <<12293,12293>>, <<12330,12333>>, <<12337,12341>>,
    <<12347,12347>>, <<12441,12446>>, <<12540,12542>>, <<40981,40981>>,
    <<42232,42237>>, <<42508,42508>>, <<42607,42610>>, <<42612,42621>>,
    <<42623,42623>>, <<42652,42655>>, <<42736,42737>>, <<42752,42785>>,
    <<42864,42864>>, <<42888,42890>>, <<42994,42996>>, <<43000,43001>>,
    <<43010,43010>>, <<43014,43014>>, <<43019,43019>>, <<43045,43046>>,
    <<43052,43052>>, <<43204,43205>>, <<43232,43249>>, <<43263,43263>>,
    <<43302,43309>>, <<43335,43345>>, <<43392,43394>>, <<43443,43443>>,
    <<43446,43449>>, <<43452,43453>>, <<43471,43471>>, <<43493,43494>>,
    <<43561,43566>>, <<43569,43570>>, <<43573,43574>>, <<43587,43587>>,
    <<43596,43596>>, <<43632,43632>>, <<43644,43644>>, <<43696,43696>>,
    <<43698,43700>>, <<43703,43704>>, <<43710,43711>>, <<43713,43713>>,
    <<43741,43741>>, <<43756,43757>>, <<43763,43764>>, <<43766,43766>>,
    <<43867,43871>>, <<43881,43883>>, <<44005,44005>>, <<44008,44008>>,
    <<44013,44013>>, <<64286,64286>>, <<64434,64450>>, <<65024,65039>>,
    <<65043,65043>>, <<65056,65071>>, <<65106,65106>>, <<65109,65109>>,
    <<65279,65279>>, <<65287,65287>>, <<65294,65294>>, <<65306,65306>>,
    <<65342,65342>>, <<65344,65344>>, <<65392,65392>>, <<65438,65439>>,
    <<65507,65507>>, <<65529,65531>>, <<66045,66045>>, <<66272,66272>>,
    <<66422,66426>>, <<67456,67461>>, <<67463,67504>>, <<67506,67514>>,
    <<68097,68099>>, <<68101,68102>>, <<68108,68111>>, <<68152,68154>>,
    <<68159,68159>>, <<68325,68326>>, <<68900,68903>>, <<69291,69292>>,
    <<69446,69456>>, <<69506,69509>>, <<69633,69633>>, <<69688,69702>>,
    <<69744,69744>>, <<69747,69748>>, <<69759,69761>>, <<69811,69814>>,
    <<69817,69818>>, <<69821,69821>>, <<69826,69826>>, <<69837,69837>>,
    <<69888,69890>>, <<69927,69931>>, <<69933,69940>>, <<70003,70003>>,
    <<70016,70017>>, <<70070,70078>>, <<70089,70092>>, <<70095,70095>>,
    <<70191,70193>>, <<70196,70196>>, <<70198,70199>>, <<70206,70206>>,
    <<70367,70367>>, <<70371,70378>>, <<70400,70401>>, <<70459,70460>>,
    <<70464,70464>>, <<70502,70508>>, <<70512,70516>>, <<70712,70719>>,
    <<70722,70724>>, <<70726,70726>>, <<70750,70750>>, <<70835,70840>>,
    <<70842,70842>>, <<70847,70848>>, <<70850,70851>>, <<71090,71093>>,
    <<71100,71101>>, <<71103,71104>>, <<71132,71133>>, <<71219,71226>>,
    <<71229,71229>>, <<71231,71232>>, <<71339,71339>>, <<71341,71341>>,
    <<71344,71349>>, <<71351,71351>>, <<71453,71455>>, <<71458,71461>>,
    <<71463,71467>>, <<71727,71735>>, <<71737,71738>>, <<71995,71996>>,
    <<71998,71998>>, <<72003,72003>>, <<72148,72151>>, <<72154,72155>>,
    <<72160,72160>>, <<72193,72202>>, <<72243,72248>>, <<72251,72254>>,
    <<72263,72263>>, <<72273,72278>>, <<72281,72283>>, <<72330,72342>>,
    <<72344,72345>>, <<72752,72758>>, <<72760,72765>>, <<72767,72767>>,
    <<72850,72871>>, <<72874,72880>>, <<72882,72883>>, <<72885,72886>>,
    <<73009,73014>>, <<73018,73018>>, <<73020,73021>>, <<73023,73029>>,
    <<73031,73031>>, <<73104,73105>>, <<73109,73109>>, <<73111,73111>>,
    <<73459,73460>>, <<78896,78904>>, <<92912,92916>>, <<92976,92982>>,
    <<92992,92995>>, <<94031,94031>>, <<94095,94111>>, <<94176,94177>>,
    <<94179,94180>>, <<110576,110579>>, <<110581,110587>>, <<110589,110590>>,
    <<113821,113822>>, <<113824,113827>>, <<118528,118573>>,
    <<118576,118598>>, <<119143,119145>>, <<119155,119170>>,
    <<119173,119179>>, <<119210,119213>>, <<119362,119364>>,
    <<121344,121398>>, <<121403,121452>>, <<121461,121461>>,
    <<121476,121476>>, <<121499,121503>>, <<121505,121519>>,
    <<122880,122886>>, <<122888,122904>>, <<122907,122913>>,
    <<122915,122916>>, <<122918,122922>>, <<123184,123197>>,
    <<123566,123566>>, <<123628,123631>>, <<125136,125142>>,
    <<125252,125259>>, <<127995,127999>>, <<917505,917505>>,
    <<917536,917631>>, <<917760,917999>> >>

\* str.lower() of one character, U+0130 and U+03A3 apart: the code points
\* first, first + step, ..., last map to themselves plus delta, as
\* <<first, last, step, delta>>
LowerRuns == <<
    <<65,90,1,32>>, <<192,214,1,32>>, <<216,222,1,32>>, <<256,302,2,1>>,
    <<306,310,2,1>>, <<313,327,2,1>>, <<330,374,2,1>>, <<376,376,1,-121>>,
    <<377,381,2,1>>, <<385,385,1,210>>, <<386,388,2,1>>, <<390,390,1,206>>,
    <<391,391,1,1>>, <<393,394,1,205>>, <<395,395,1,1>>, <<398,398,1,79>>,
    <<399,399,1,202>>, <<400,400,1,203>>, <<401,401,1,1>>, <<403,403,1,205>>,
    <<404,404,1,207>>, <<406,406,1,211>>, <<407,407,1,209>>, <<408,408,1,1>>,
    <<412,412,1,211>>, <<413,413,1,213>>, <<415,415,1,214>>, <<416,420,2,1>>,
    <<422,422,1,218>>, <<423,423,1,1>>, <<425,425,1,218>>, <<428,428,1,1>>,
    <<430,430,1,218>>, <<431,431,1,1>>, <<433,434,1,217>>, <<435,437,2,1>>,
    <<439,439,1,219>>, <<440,440,1,1>>, <<444,444,1,1>>, <<452,452,1,2>>,
    <<453,453,1,1>>, <<455,455,1,2>>, <<456,456,1,1>>, <<458,458,1,2>>,
    <<459,475,2,1>>, <<478,494,2,1>>, <<497,497,1,2>>, <<498,500,2,1>>,
    <<502,502,1,-97>>, <<503,503,1,-56>>, <<504,542,2,1>>, <<544,544,1,-130>>,
    <<546,562,2,1>>, <<570,570,1,10795>>, <<571,571,1,1>>, <<573,573,1,-163>>,
    <<574,574,1,10792>>, <<577,577,1,1>>, <<579,579,1,-195>>,
    <<580,580,1,69>>, <<581,581,1,71>>, <<582,590,2,1>>, <<880,882,2,1>>,
    <<886,886,1,1>>, <<895,895,1,116>>, <<902,902,1,38>>, <<904,906,1,37>>,
    <<908,908,1,64>>, <<910,911,1,63>>, <<913,929,1,32>>, <<932,939,1,32>>,
    <<975,975,1,8>>, <<984,1006,2,1>>, <<1012,1012,1,-60>>, <<1015,1015,1,1>>,
    <<1017,1017,1,-7>>, <<1018,1018,1,1>>, <<1021,1023,1,-130>>,
    <<1024,1039,1,80>>, <<1040,1071,1,32>>, <<1120,1152,2,1>>,
    <<1162,1214,2,1>>, <<1216,1216,1,15>>, <<1217,1229,2,1>>,
    <<1232,1326,2,1>>, <<1329,1366,1,48>>, <<4256,4293,1,7264>>,
    <<4295,4295,1,7264>>, <<4301,4301,1,7264>>, <<5024,5103,1,38864>>,
    <<5104,5109,1,8>>, <<7312,7354,1,-3008>>, <<7357,7359,1,-3008>>,
    <<7680,7828,2,1>>, <<7838,7838,1,-7615>>, <<7840,7934,2,1>>,
    <<7944,7951,1,-8>>, <<7960,7965,1,-8>>, <<7976,7983,1,-8>>,
    <<7992,7999,1,-8>>, <<8008,8013,1,-8>>, <<8025,8031,2,-8>>,
    <<8040,8047,1,-8>>, <<8072,8079,1,-8>>, <<8088,8095,1,-8>>,
    <<8104,8111,1,-8>>, <<8120,8121,1,-8>>, <<8122,8123,1,-74>>,
    <<8124,8124,1,-9>>, <<8136,8139,1,-86>>, <<8140,8140,1,-9>>,
    <<8152,8153,1,-8>>, <<8154,8155,1,-100>>, <<8168,8169,1,-8>>,
    <<8170,8171,1,-112>>, <<8172,8172,1,-7>>, <<8184,8185,1,-128>>,
    <<8186,8187,1,-126>>, <<8188,8188,1,-9>>, <<8486,8486,1,-7517>>,
    <<8490,8490,1,-8383>>, <<8491,8491,1,-8262>>, <<8498,8498,1,28>>,
    <<8544,8559,1,16>>, <<8579,8579,1,1>>, <<9398,9423,1,26>>,
    <<11264,11311,1,48>>, <<11360,11360,1,1>>, <<11362,11362,1,-10743>>,
    <<11363,11363,1,-3814>>, <<11364,11364,1,-10727>>, <<11367,11371,2,1>>,
    <<11373,11373,1,-10780>>, <<11374,11374,1,-10749>>,
    <<11375,11375,1,-10783>>, <<11376,11376,1,-10782>>, <<11378,11378,1,1>>,
    <<11381,11381,1,1>>, <<11390,11391,1,-10815>>, <<11392,11490,2,1>>,
    <<11499,11501,2,1>>, <<11506,11506,1,1>>, <<42560,42604,2,1>>,
    <<42624,42650,2,1>>, <<42786,42798,2,1>>, <<42802,42862,2,1>>,
    <<42873,42875,2,1>>, <<42877,42877,1,-35332>>, <<42878,42886,2,1>>,
    <<42891,42891,1,1>>, <<42893,42893,1,-42280>>, <<42896,42898,2,1>>,
    <<42902,42920,2,1>>, <<42922,42922,1,-42308>>, <<42923,42923,1,-42319>>,
    <<42924,42924,1,-42315>>, <<42925,42925,1,-42305>>,
    <<42926,42926,1,-42308>>, <<42928,42928,1,-42258>>,
    <<42929,42929,1,-42282>>, <<42930,42930,1,-42261>>, <<42931,42931,1,928>>,
    <<42932,42946,2,1>>, <<42948,42948,1,-48>>, <<42949,42949,1,-42307>>,
    <<42950,42950,1,-35384>>, <<42951,42953,2,1>>, <<42960,42960,1,1>>,
    <<42966,42968,2,1>>, <<42997,42997,1,1>>, <<65313,65338,1,32>>,
    <<66560,66599,1,40>>, <<66736,66771,1,40>>, <<66928,66938,1,39>>,
    <<66940,66954,1,39>>, <<66956,66962,1,39>>, <<66964,66965,1,39>>,
    <<68736,68786,1,64>>, <<71840,71871,1,32>>, <<93760,93791,1,32>>,
    <<125184,125217,1,34>> >>

\* "".join(parts)
RECURSIVE ConcatIn(_, _, _)
ConcatIn(parts, lo, hi) ==
    IF lo > hi THEN << >>
    ELSE IF lo = hi THEN parts[lo]
    ELSE ConcatIn(parts, lo, (lo + hi) \div 2)
         \o ConcatIn(parts, (lo + hi) \div 2 + 1, hi)

Concat(parts) == ConcatIn(parts, 1, Len(parts))

\* sorted(S) for a set of positions within lo..hi
RECURSIVE Ascending(_, _, _)
Ascending(S, lo, hi) ==
    IF lo > hi THEN << >>
    ELSE IF lo = hi THEN (IF lo \in S THEN <<lo>> ELSE << >>)
    ELSE Ascending(S, lo, (lo + hi) \div 2)
         \o Ascending(S, (lo + hi) \div 2 + 1, hi)

InRanges(c, table) == \E k \in DOMAIN table : table[k][1] <= c /\ c <= table[k][2]
CharsOf(table) == UNION {table[k][1]..table[k][2] : k \in DOMAIN table}

\* the characters for which str.isdigit() holds
DigitChars == CharsOf(IsdigitRanges)
\* the characters \d of the re module matches (the decimal digits)
DecimalChars == CharsOf(DecimalRanges)
\* the characters \w of the re module matches
WordChars == CharsOf(WordRanges)

\* str.isspace() of one character (str.strip(), and \s of the re module)
IsSpace(c) == c \in SpaceChars
\* str.isdigit() of one character
IsDigit(c) == c \in DigitChars
\* \w of the re module
IsWord(c) == c \in WordChars

IsCased(c) == InRanges(c, CasedRanges)
IsCaseIgnorable(c) == InRanges(c, CaseIgnorableRanges)

\* c is one of the code points first, first + step, ..., last of a run
InRun(c, run) == run[1] <= c /\ c <= run[2] /\ (c - run[1]) % run[3] = 0

\* c plus the delta of the run of the table that holds c, c when none does
LowerIn(c, table) ==
    IF \E k \in DOMAIN table : InRun(c, table[k])
    THEN c + table[CHOOSE k \in DOMAIN table : InRun(c, table[k])][4]
    ELSE c

\* str.lower() of a character with a one-character lowercase of its own
LowerChar(c) ==
    IF c < 128 THEN IF c \in UpperSet THEN c + 32 ELSE c
    ELSE LowerIn(c, LowerRuns)

\* the final-sigma condition of str.lower() for U+03A3 at position i of s,
\* kept being the positions of the characters of s that are not
\* case-ignorable: the nearest kept character before i is cased, and the
\* nearest kept character after i, if any, is not
FinalSigma(s, i, kept) ==
    LET before == {j \in kept : j < i}
        after == {j \in kept : j > i}
    IN  /\ before # {}
        /\ IsCased(s[CHOOSE j \in before : \A k \in before : k <= j])
        /\ after = {} \/ ~IsCased(s[CHOOSE j \in after : \A k \in after : j <= k])

FinalSigmaAt(s, i) == FinalSigma(s, i, {j \in DOMAIN s : ~IsCaseIgnorable(s[j])})

\* the lowercase of the character at position i of s: one character, or two
\* for U+0130
LowerAt(s, i) ==
    IF s[i] = 931 (* \u03a3 *)
    THEN IF FinalSigmaAt(s, i) THEN <<962>> (* \u03c2 *) ELSE <<963>> (* \u03c3 *)
    ELSE IF s[i] = 304 (* \u0130 *) THEN <<105,775>> (* i\u0307 *)
    ELSE << LowerChar(s[i]) >>

\* str.lower()
Lower(s) == Concat([i \in DOMAIN s |-> LowerAt(s, i)])

\* s[i:] of a 1-based index
From(s, i) == SubSeq(s, i, Len(s))

\* t.startswith(k) at 1-based position i of t
MatchAt(k, t, i) ==
    /\ i + Len(k) - 1 <= Len(t)
    /\ \A j \in DOMAIN k : t[i + j - 1] = k[j]

\* k in t (substring containment)
Contains(k, t) == \E i \in 1..(Len(t) - Len(k) + 1) : MatchAt(k, t, i)

\* str.strip()
Strip(s) ==
    LET keep == {i \in DOMAIN s : ~IsSpace(s[i])}
    IN  IF keep = {} THEN << >>
        ELSE SubSeq(s, CHOOSE i \in keep : \A j \in keep : i <= j,
                       CHOOSE i \in keep : \A j \in keep : j <= i)

\* str.split(sep) with a one-character separator
Pieces(s, cuts) ==
    [k \in 1..(Len(cuts) - 1) |-> SubSeq(s, cuts[k] + 1, cuts[k + 1] - 1)]
Split(s, sep) ==
    Pieces(s, <<0>> \o Ascending({i \in DOMAIN s : s[i] = sep}, 1, Len(s))
                   \o <<Len(s) + 1>>)

\* sep.join(parts)
Join(parts, sep) ==
    IF parts = << >> THEN << >>
    ELSE Concat([k \in DOMAIN parts |-> IF k = 1 THEN parts[k] ELSE sep \o parts[k]])

\* s[:n]
Prefix(s, n) == SubSeq(s, 1, IF Len(s) < n THEN Len(s) ELSE n)

\* the concatenation of f[x] for the x of s, in order
FlatMap(f, s) == Concat([k \in DOMAIN s |-> f[s[k]]])

NotFound == <<78,111,116,32,102,111,117,110,100>> (* Not found *)

-----------------------------------------------------------------------------
(* extractor.py *)

SKILLS_LIST == <<
    <<112,121,116,104,111,110>> (* python *), <<106,97,118,97>> (* java *), <<106,97,118,97,115,99,114,105,112,116>> (* javascript *), <<99,43,43>> (* c++ *), <<99,35>> (* c# *), <<112,104,112>> (* php *), <<114,117,98,121>> (* ruby *), <<115,119,105,102,116>> (* swift *),
    <<107,111,116,108,105,110>> (* kotlin *), <<103,111>> (* go *), <<114,117,115,116>> (* rust *), <<116,121,112,101,115,99,114,105,112,116>> (* typescript *), <<114>> (* r *), <<109,97,116,108,97,98>> (* matlab *), <<115,99,97,108,97>> (* scala *),
    <<104,116,109,108>> (* html *), <<99,115,115>> (* css *), <<114,101,97,99,116>> (* react *), <<97,110,103,117,108,97,114>> (* angular *), <<118,117,101>> (* vue *), <<110,111,100,101,106,115>> (* nodejs *), <<110,111,100,101,46,106,115>> (* node.js *),
    <<100,106,97,110,103,111>> (* django *), <<102,108,97,115,107>> (* flask *), <<102,97,115,116,97,112,105>> (* fastapi *), <<101,120,112,114,101,115,115>> (* express *), <<115,112,114,105,110,103>> (* spring *), <<97,115,112,46,110,101,116>> (* asp.net *),
    <<115,113,108>> (* sql *), <<109,121,115,113,108>> (* mysql *), <<112,111,115,116,103,114,101,115,113,108>> (* postgresql *), <<109,111,110,103,111,100,98>> (* mongodb *), <<114,101,100,105,115>> (* redis *), <<111,114,97,99,108,101>> (* oracle *),
    <<115,113,108,105,116,101>> (* sqlite *), <<99,97,115,115,97,110,100,114,97>> (* cassandra *), <<100,121,110,97,109,111,100,98>> (* dynamodb *),
    <<97,119,115>> (* aws *), <<97,122,117,114,101>> (* azure *), <<103,99,112>> (* gcp *), <<103,111,111,103,108,101,32,99,108,111,117,100>> (* google cloud *), <<100,111,99,107,101,114>> (* docker *), <<107,117,98,101,114,110,101,116,101,115>> (* kubernetes *),
    <<106,101,110,107,105,110,115>> (* jenkins *), <<103,105,116>> (* git *), <<103,105,116,104,117,98>> (* github *), <<103,105,116,108,97,98>> (* gitlab *), <<99,105,47,99,100>> (* ci/cd *), <<116,101,114,114,97,102,111,114,109>> (* terraform *),
    <<109,97,99,104,105,110,101,32,108,101,97,114,110,105,110,103>> (* machine learning *), <<100,101,101,112,32,108,101,97,114,110,105,110,103>> (* deep learning *), <<100,97,116,97,32,97,110,97,108,121,115,105,115>> (* data analysis *), <<100,97,116,97,32,115,99,105,101,110,99,101>> (* data science *),
    <<97,114,116,105,102,105,99,105,97,108,32,105,110,116,101,108,108,105,103,101,110,99,101>> (* artificial intelligence *), <<97,105>> (* ai *), <<109,108>> (* ml *), <<110,108,112>> (* nlp *), <<99,111,109,112,117,116,101,114,32,118,105,115,105,111,110>> (* computer vision *),
    <<112,97,110,100,97,115>> (* pandas *), <<110,117,109,112,121>> (* numpy *), <<115,99,105,107,105,116,45,108,101,97,114,110>> (* scikit-learn *), <<116,101,110,115,111,114,102,108,111,119>> (* tensorflow *), <<112,121,116,111,114,99,104>> (* pytorch *), <<107,101,114,97,115>> (* keras *),
    <<101,120,99,101,108>> (* excel *), <<112,111,119,101,114,32,98,105>> (* power bi *), <<116,97,98,108,101,97,117>> (* tableau *), <<106,105,114,97>> (* jira *), <<97,103,105,108,101>> (* agile *), <<115,99,114,117,109>> (* scrum *),
    <<114,101,115,116,32,97,112,105>> (* rest api *), <<103,114,97,112,104,113,108>> (* graphql *), <<109,105,99,114,111,115,101,114,118,105,99,101,115>> (* microservices *), <<108,105,110,117,120>> (* linux *), <<119,105,110,100,111,119,115>> (* windows *),
    <<108,101,97,100,101,114,115,104,105,112>> (* leadership *), <<99,111,109,109,117,110,105,99,97,116,105,111,110>> (* communication *), <<116,101,97,109,119,111,114,107>> (* teamwork *), <<112,114,111,98,108,101,109,32,115,111,108,118,105,110,103>> (* problem solving *),
    <<112,114,111,106,101,99,116,32,109,97,110,97,103,101,109,101,110,116>> (* project management *), <<97,110,97,108,121,116,105,99,97,108,32,116,104,105,110,107,105,110,103>> (* analytical thinking *) >>

\* FoundSkills without the lowercasing of the text
FoundSkills_CaseSensitive(text) ==
    LET Present(skill) == Contains(skill, text)
    IN  SelectSeq(SKILLS_LIST, Present)

\* the found_skills list built by the loop of extract_skills
FoundSkills(text) ==
    LET text_lower == Lower(text)
        Present(skill) == Contains(skill, text_lower)
    IN  SelectSeq(SKILLS_LIST, Present)

\* list(set(found_skills)): every distinct element once, in no defined order;
\* the returned list is modelled by its bag of elements
ListOfSet(found) == SetToBag(Range(found))

extract_skills(text) == ListOfSet(FoundSkills(text))

skip_words == << <<114,101,115,117,109,101>> (* resume *), <<99,117,114,114,105,99,117,108,117,109>> (* curriculum *), <<118,105,116,97,101>> (* vitae *), <<99,118>> (* cv *), <<112,114,111,102,105,108,101>> (* profile *), <<115,117,109,109,97,114,121>> (* summary *) >>

\* the lines extract_name looks at: lines[:5] of the stripped text
NameScanLimit == 5
NameMaxLen == 50
\* NameLines without the [:5]
NameLines_All(text) == Split(Strip(text), 10 (* \n *))

NameLines(text) == Prefix(Split(Strip(text), 10 (* \n *)), NameScanLimit)

\* LooksLikeName without the test that the line is not empty
LooksLikeName_AllowEmpty(line) ==
    /\ Len(line) < NameMaxLen
    /\ ~\E i \in DOMAIN line : IsDigit(line[i])
    /\ ~\E k \in DOMAIN skip_words : Contains(skip_words[k], Lower(line))

\* the test of extract_name on one stripped line
LooksLikeName(line) ==
    /\ line # << >>
    /\ Len(line) < NameMaxLen
    /\ ~\E i \in DOMAIN line : IsDigit(line[i])
    /\ ~\E k \in DOMAIN skip_words : Contains(skip_words[k], Lower(line))

extract_name(text) ==
    LET lines == NameLines(text)
        ok == {i \in DOMAIN lines : LooksLikeName(Strip(lines[i]))}
    IN  IF ok = {} THEN NotFound
        ELSE Strip(lines[CHOOSE i \in ok : \A j \in ok : i <= j])

(* The re module: a pattern is matched from position i of t by trying its    *)
(* alternatives in the engine's order (greedy first, then backtracking).   *)
(* An ...Ends operator gives, in that order, the positions at which the    *)
(* piece can end; a position is the index of the next unread character.    *)

\* c? for a one-character class: consume first, then skip
OptEnds(t, i, class) ==
    IF i <= Len(t) /\ t[i] \in class THEN <<i + 1, i>> ELSE <<i>>

\* the length of the longest run of class characters from position i
RunLen(t, i, class) ==
    LET stops == {k \in 0..(Len(t) - i + 1) : i + k > Len(t) \/ t[i + k] \notin class}
    IN  IF i > Len(t) THEN 0 ELSE CHOOSE k \in stops : \A j \in stops : k <= j

\* c{lo,hi} for a one-character class, greedy: longest first
RepeatEnds(t, i, class, lo, hi) ==
    LET run == RunLen(t, i, class)
        top == IF run < hi THEN run ELSE hi
    IN  IF top < lo THEN << >>
        ELSE [k \in 1..(top - lo + 1) |-> i + top - k + 1]

\* \b at position i
WordAt(t, i) == i >= 1 /\ i <= Len(t) /\ IsWord(t[i])
WordBoundary(t, i) == WordAt(t, i - 1) # WordAt(t, i)

\* the positions of a text, the one after its last character included
Positions(t) == 1..(Len(t) + 1)

\* the first position of t from which the pattern matches, 0 if none;
\* matches[i] are the matches from position i
FirstMatchStart(t, matches) ==
    LET starts == {i \in 1..Len(t) : matches[i] # << >>}
    IN  IF starts = {} THEN 0
        ELSE CHOOSE i \in starts : \A j \in starts : i <= j

\* extract_email: \b[A-Za-z0-9._%+-]+@[A-Za-z0-9.-]+\.[A-Z|a-z]{2,}\b
EmailLocalChars == AlphaChars \cup AsciiDigitChars \cup {46 (* . *), 95 (* _ *), 37 (* % *), 43 (* + *), 45 (* - *)}
EmailDomainChars == AlphaChars \cup AsciiDigitChars \cup {46 (* . *), 45 (* - *)}
EmailTldChars == AlphaChars \cup {124 (* | *)}

EmailEnds(t, i) ==
    LET Tld == [c \in Positions(t) |-> IF WordBoundary(t, c) THEN <<c>> ELSE << >>]
        Dot == [b \in Positions(t) |->
                  IF b <= Len(t) /\ t[b] = 46 (* . *)
                  THEN FlatMap(Tld, RepeatEnds(t, b + 1, EmailTldChars, 2, Len(t)))
                  ELSE << >>]
        At == [a \in Positions(t) |->
                  IF a <= Len(t) /\ t[a] = 64 (* @ *)
                  THEN FlatMap(Dot, RepeatEnds(t, a + 1, EmailDomainChars, 1, Len(t)))
                  ELSE << >>]
    IN  IF WordBoundary(t, i)
        THEN FlatMap(At, RepeatEnds(t, i, EmailLocalChars, 1, Len(t)))
        ELSE << >>

extract_email(text) ==
    LET matches == [i \in 1..Len(text) |-> EmailEnds(text, i)]
        start == FirstMatchStart(text, matches)
    IN  IF start = 0 THEN NotFound
        ELSE SubSeq(text, start, Head(matches[start]) - 1)

\* extract_phone:
\*   (\+?\d{1,3}[-.\s]?)?(\(?\d{3}\)?[-.\s]?)(\d{3}[-.\s]?\d{4})
PhoneSepChars == {45 (* - *), 46 (* . *)} \cup SpaceChars

\* \+?\d{1,3}[-.\s]?
PhoneGroup1Ends(t, i) ==
    LET Sep == [q \in Positions(t) |-> OptEnds(t, q, PhoneSepChars)]
        Code == [p \in Positions(t) |-> FlatMap(Sep, RepeatEnds(t, p, DecimalChars, 1, 3))]
    IN  FlatMap(Code, OptEnds(t, i, {43 (* + *)}))

\* \(?\d{3}\)?[-.\s]?
PhoneGroup2Ends(t, i) ==
    LET Sep == [q \in Positions(t) |-> OptEnds(t, q, PhoneSepChars)]
        Close == [q \in Positions(t) |-> FlatMap(Sep, OptEnds(t, q, {41 (* [rpar] *)}))]
        Area == [p \in Positions(t) |-> FlatMap(Close, RepeatEnds(t, p, DecimalChars, 3, 3))]
    IN  FlatMap(Area, OptEnds(t, i, {40 (* [lpar] *)}))

\* \d{3}[-.\s]?\d{4}
PhoneGroup3Ends(t, i) ==
    LET Last == [q \in Positions(t) |-> RepeatEnds(t, q, DecimalChars, 4, 4)]
        Sep == [q \in Positions(t) |-> FlatMap(Last, OptEnds(t, q, PhoneSepChars))]
    IN  FlatMap(Sep, RepeatEnds(t, i, DecimalChars, 3, 3))

\* the matches of the whole pattern from position i, as <<e1, e2, e3>>: the
\* ends of the three groups (the optional first group is tried present, then
\* absent, where it ends at i)
PhoneTriples(e1, e2, ends) == [k \in DOMAIN ends |-> <<e1, e2, ends[k]>>]
PhoneMatchesFrom(t, e1) ==
    FlatMap([e2 \in Positions(t) |-> PhoneTriples(e1, e2, PhoneGroup3Ends(t, e2))],
            PhoneGroup2Ends(t, e1))
PhoneMatchesAt(t, i) ==
    FlatMap([e1 \in Positions(t) |-> PhoneMatchesFrom(t, e1)],
            PhoneGroup1Ends(t, i) \o <<i>>)

\* the three groups of the match from position start whose groups end at e
PhoneGroups(text, start, e) ==
    << SubSeq(text, start, e[1] - 1),
       SubSeq(text, e[1], e[2] - 1),
       SubSeq(text, e[2], e[3] - 1) >>

\* matches[0] of re.findall: the three groups of the first match ("" for the
\* first group when it took no part), or << >> when there is no match;
\* matches[i] are the matches from position i and start is the first i that
\* has one
PhoneGroupsOfFirst(text, matches, start) ==
    IF start = 0 THEN << >> ELSE PhoneGroups(text, start, Head(matches[start]))
PhoneFirstOf(text, matches) ==
    PhoneGroupsOfFirst(text, matches, FirstMatchStart(text, matches))
PhoneFirstGroups(text) ==
    PhoneFirstOf(text, [i \in 1..Len(text) |-> PhoneMatchesAt(text, i)])

\* the digits of s
DigitsOnly(s) ==
    LET IsD(c) == c \in DecimalChars IN SelectSeq(s, IsD)

\* extract_phone with the formatting of the groups stripped
JoinedDigits(groups) ==
    IF groups # << >> THEN DigitsOnly(Concat(groups)) ELSE NotFound
extract_phone_DigitsOnly(text) == JoinedDigits(PhoneFirstGroups(text))

\* ''.join(matches[0]), or the sentinel when matches is empty
JoinedGroups(groups) ==
    IF groups # << >> THEN Concat(groups) ELSE NotFound
extract_phone(text) == JoinedGroups(PhoneFirstGroups(text))

extract_all(text) ==
    [name |-> extract_name(text),
     email |-> extract_email(text),
     phone |-> extract_phone(text),
     skills |-> extract_skills(text)]

-----------------------------------------------------------------------------
(* scorer.py *)

important_keywords == <<
    <<112,121,116,104,111,110>> (* python *), <<106,97,118,97>> (* java *), <<106,97,118,97,115,99,114,105,112,116>> (* javascript *), <<114,101,97,99,116>> (* react *), <<97,110,103,117,108,97,114>> (* angular *), <<118,117,101>> (* vue *),
    <<100,106,97,110,103,111>> (* django *), <<102,108,97,115,107>> (* flask *), <<115,112,114,105,110,103>> (* spring *), <<110,111,100,101,106,115>> (* nodejs *), <<115,113,108>> (* sql *), <<110,111,115,113,108>> (* nosql *),
    <<97,119,115>> (* aws *), <<97,122,117,114,101>> (* azure *), <<100,111,99,107,101,114>> (* docker *), <<107,117,98,101,114,110,101,116,101,115>> (* kubernetes *), <<103,105,116>> (* git *), <<97,103,105,108,101>> (* agile *),
    <<109,97,99,104,105,110,101,32,108,101,97,114,110,105,110,103>> (* machine learning *), <<100,97,116,97,32,97,110,97,108,121,115,105,115>> (* data analysis *), <<97,112,105>> (* api *), <<109,105,99,114,111,115,101,114,118,105,99,101,115>> (* microservices *),
    <<108,101,97,100,101,114,115,104,105,112>> (* leadership *), <<99,111,109,109,117,110,105,99,97,116,105,111,110>> (* communication *), <<116,101,97,109,119,111,114,107>> (* teamwork *), <<112,114,111,98,108,101,109,32,115,111,108,118,105,110,103>> (* problem solving *) >>

\* the keywords of the job text in the order in which they first appear in it
JobKeywords_ByAppearance(job) ==
    LET job_lower == Lower(job)
        found == {k \in DOMAIN important_keywords :
                    Contains(important_keywords[k], job_lower)}
        FirstAt(k) == CHOOSE i \in DOMAIN job_lower :
                        /\ MatchAt(important_keywords[k], job_lower, i)
                        /\ \A j \in 1..(i - 1) :
                              ~MatchAt(important_keywords[k], job_lower, j)
        Before(a, b) == FirstAt(a) < FirstAt(b) \/ (FirstAt(a) = FirstAt(b) /\ a < b)
        Rank(k) == Cardinality({a \in found : Before(a, k)}) + 1
    IN  [r \in 1..Cardinality(found) |->
            important_keywords[CHOOSE k \in found : Rank(k) = r]]

\* job_keywords = [kw for kw in important_keywords if kw in job_lower]
JobKeywords(job) ==
    LET job_lower == Lower(job)
        InJob(kw) == Contains(kw, job_lower)
    IN  SelectSeq(important_keywords, InJob)

\* get_matching_keywords with missing taken from the whole vocabulary
get_matching_keywords_AllMissing(resume, job) ==
    LET resume_lower == Lower(resume)
        job_keywords == JobKeywords(job)
        InResume(kw) == Contains(kw, resume_lower)
        NotInResume(kw) == ~Contains(kw, resume_lower)
        matched == SelectSeq(job_keywords, InResume)
        missing == SelectSeq(important_keywords, NotInResume)
    IN  [matched |-> matched,
         missing |-> missing,
         match_count |-> Len(matched),
         total_required |-> Len(job_keywords)]

get_matching_keywords(resume, job) ==
    LET resume_lower == Lower(resume)
        job_keywords == JobKeywords(job)
        InResume(kw) == Contains(kw, resume_lower)
        NotInResume(kw) == ~Contains(kw, resume_lower)
        matched == SelectSeq(job_keywords, InResume)
        missing == SelectSeq(job_keywords, NotInResume)
    IN  [matched |-> matched,
         missing |-> missing,
         match_count |-> Len(matched),
         total_required |-> Len(job_keywords)]


(* calculate_match_score.  The returned float, rounded to 2 decimals, is    *)
(* modelled by the integer number of hundredths (100.0 is 10000); a call   *)
(* is the record [exc, value], exc naming the exception raised, if any.    *)

Returned(v) == [exc |-> "None", value |-> v]
Raised(e) == [exc |-> e, value |-> "None"]

\* TfidfVectorizer's analyzer: lowercase, then the token pattern
\* (?u)\b\w\w+\b, the maximal runs of two or more word characters
TokensAt(s, starts) ==
    IF starts = << >> THEN << >>
    ELSE [k \in DOMAIN starts |->
             SubSeq(s, starts[k], starts[k] + RunLen(s, starts[k], WordChars) - 1)]
TokenRuns(s) ==
    TokensAt(s, Ascending({i \in DOMAIN s : /\ IsWord(s[i])
                                            /\ i = 1 \/ ~IsWord(s[i - 1])
                                            /\ i < Len(s) /\ IsWord(s[i + 1])},
                          1, Len(s)))

Tokenize(doc) == TokenRuns(Lower(doc))

\* the term count of CountVectorizer
TermCount(tokens, term) == Cardinality({i \in DOMAIN tokens : tokens[i] = term})

\* the terms of a document, each once, in the order of their first token
TermsAt(tokens, firsts) ==
    IF firsts = << >> THEN << >> ELSE [k \in DOMAIN firsts |-> tokens[firsts[k]]]
Terms(tokens) ==
    TermsAt(tokens,
            Ascending({i \in DOMAIN tokens : \A j \in 1..(i - 1) : tokens[j] # tokens[i]},
                      1, Len(tokens)))

RECURSIVE SumOver(_, _)
SumOver(f, S) ==
    IF S = {} THEN 0
    ELSE LET x == CHOOSE x \in S : TRUE IN f[x] + SumOver(f, S \ {x})

(* The weights and norms of the vectorizer are floats.  They are computed   *)
(* here on natural numbers of any size: a number is the sequence of its   *)
(* digits in base 1000, least significant first, without zeros at the     *)
(* most significant end (0 is <<0>>).                                     *)
Base == 1000

RECURSIVE BigOf(_)
BigOf(n) == IF n < Base THEN <<n>> ELSE <<n % Base>> \o BigOf(n \div Base)

\* the digits of the number whose k-th column holds cols[k], from column k
\* on with the carry of the columns before it
RECURSIVE Carried(_, _, _)
Carried(cols, k, carry) ==
    IF k > Len(cols)
    THEN IF carry = 0 THEN << >> ELSE BigOf(carry)
    ELSE <<(cols[k] + carry) % Base>>
         \o Carried(cols, k + 1, (cols[k] + carry) \div Base)

Trimmed(a) ==
    LET nz == {k \in DOMAIN a : a[k] # 0}
    IN  IF nz = {} THEN <<0>>
        ELSE SubSeq(a, 1, CHOOSE k \in nz : \A j \in nz : j <= k)

Digit(a, k) == IF k \in DOMAIN a THEN a[k] ELSE 0

BigAdd(a, b) ==
    Trimmed(Carried([k \in 1..(IF Len(a) < Len(b) THEN Len(b) ELSE Len(a)) |->
                        Digit(a, k) + Digit(b, k)], 1, 0))

BigMul(a, b) ==
    Trimmed(Carried([k \in 1..(Len(a) + Len(b) - 1) |->
                        SumOver([i \in DOMAIN a |-> a[i] * Digit(b, k + 1 - i)],
                                DOMAIN a)], 1, 0))

\* a <= b
BigLeq(a, b) ==
    \/ Len(a) < Len(b)
    \/ /\ Len(a) = Len(b)
       /\ \A k \in DOMAIN a : a[k] > b[k] => \E j \in DOMAIN a : j > k /\ a[j] < b[j]

RECURSIVE BigSumIn(_, _, _)
BigSumIn(q, lo, hi) ==
    IF lo > hi THEN <<0>>
    ELSE IF lo = hi THEN q[lo]
    ELSE BigAdd(BigSumIn(q, lo, (lo + hi) \div 2),
                BigSumIn(q, (lo + hi) \div 2 + 1, hi))

BigSum(q) == BigSumIn(q, 1, Len(q))

\* smooth idf over the two documents: ln(3 / (1 + df)) + 1, which is 1 for a
\* term of both documents and 1.40546510810816438... for a term of one; the
\* squares of the idf are kept to 18 decimals, as multiples of 10^-18
IdfSquaredShared == <<0, 0, 0, 0, 0, 0, 1>>
IdfSquaredSingle == <<194, 494, 109, 170, 332, 975, 1>>

\* n * n
BigSquare(n) == BigMul(BigOf(n), BigOf(n))

\* the squared term counts of the terms of one document that are terms of
\* the other one too (shared) or that are not
SquaredCounts(tokens, other, terms, shared) ==
    [k \in DOMAIN terms |->
        IF (terms[k] \in Range(other)) = shared
        THEN BigSquare(TermCount(tokens, terms[k])) ELSE <<0>>]

\* the squared norm of the tf * idf row of one document, in multiples of
\* 10^-18: the sum of (tf * idf)^2 over its terms
NormSquared(tokens, other) ==
    BigAdd(BigMul(BigSum(SquaredCounts(tokens, other, Terms(tokens), TRUE)),
                  IdfSquaredShared),
           BigMul(BigSum(SquaredCounts(tokens, other, Terms(tokens), FALSE)),
                  IdfSquaredSingle))

\* the products of the term counts of the terms of both documents
CountProducts(t1, t2, terms) ==
    [k \in DOMAIN terms |->
        IF terms[k] \in Range(t2)
        THEN BigMul(BigOf(TermCount(t1, terms[k])), BigOf(TermCount(t2, terms[k])))
        ELSE <<0>>]

\* the dot product of the two tf * idf rows divided by the idf squared of the
\* shared terms, which is 1
DotProduct(t1, t2) == BigSum(CountProducts(t1, t2, Terms(t1)))

\* (2 * v - 1)^2 * p <= x, that is v - 1/2 <= sqrt(x / p) / 2
AtLeastHalfBelow(v, x, p) ==
    BigLeq(BigMul(BigOf((2 * v - 1) * (2 * v - 1)), p), x)

\* the largest v of lo..hi with v = lo or v - 1/2 <= sqrt(x / p) / 2: the
\* hundredth nearest to sqrt(x / p) / 2, the upper one of two equally near
RECURSIVE NearestIn(_, _, _, _)
NearestIn(x, p, lo, hi) ==
    IF lo = hi THEN lo
    ELSE IF AtLeastHalfBelow((lo + hi + 1) \div 2, x, p)
    THEN NearestIn(x, p, (lo + hi + 1) \div 2, hi)
    ELSE NearestIn(x, p, lo, (lo + hi + 1) \div 2 - 1)

(* The code computes the similarity in float64, so what it rounds differs  *)
(* from the exact value by a rounding error whose sign depends on the      *)
(* order of the operations of the library.  The error decides the result  *)
(* only where the exact value is next to a value halfway between two      *)
(* hundredths: there the result is one of the two, as the sign of the     *)
(* error, float_error, has it.                                            *)
FloatErrors == {-1, 1}

\* lo <= sqrt(x / p) <= hi
Within(lo, hi, x, p) ==
    /\ BigLeq(BigMul(BigMul(lo, lo), p), x)
    /\ BigLeq(x, BigMul(BigMul(hi, hi), p))

\* sqrt(x / p) is within 10^-9 of b >= 1, x being given times 10^18: it is
\* between b * 10^9 - 1 and b * 10^9 + 1
NearHalfway(b, x, p) ==
    Within(Trimmed(<<999, 999, 999>> \o BigOf(b - 1)), <<1, 0, 0>> \o BigOf(b), x, p)

\* round() of the float whose exact value has v as its nearest hundredth
RoundFloat(v, x, p, float_error) ==
    IF float_error < 0 /\ v > 0 /\ NearHalfway(2 * v - 1, x, p) THEN v - 1
    ELSE IF float_error > 0 /\ v < 10000 /\ NearHalfway(2 * v + 1, x, p) THEN v + 1
    ELSE v

\* the square of 20000 * dot * 10^18
ScaledSquare(s) == <<0, 0, 0, 0, 0, 0, 0, 0, 0, 0, 0, 0>> \o BigMul(s, s)

\* round(similarity * 100, 2) in hundredths, for the dot product and the
\* product of the squared norms of the two rows:
\* similarity * 10000 = 10000 * dot / sqrt(n1 * n2)
Hundredths(dot, n1n2, float_error) ==
    IF dot = <<0>> THEN 0
    ELSE LET x == ScaledSquare(BigMul(BigOf(20000), dot))
         IN  RoundFloat(NearestIn(x, n1n2, 0, 10000),
                        <<0, 0, 0, 0, 0, 0>> \o x, n1n2, float_error)

\* round(cosine_similarity * 100, 2) in hundredths; a zero row has similarity 0
CosineScore(t1, t2, float_error) ==
    Hundredths(DotProduct(t1, t2),
               BigMul(NormSquared(t1, t2), NormSquared(t2, t1)), float_error)

calculate_match_score(resume, job, float_error) ==
    LET t1 == Tokenize(resume)
        t2 == Tokenize(job)
    IN  IF Range(t1) \cup Range(t2) = {}
        THEN Raised("ValueError")   \* fit_transform: empty vocabulary
        ELSE Returned(CosineScore(t1, t2, float_error))

-----------------------------------------------------------------------------
(* suggester.py.  match_score is in hundredths, as calculate_match_score   *)
(* returns it.                                                             *)

StrongScore == 7500
ModerateScore == 5000
StrengthsLimit == 5

\* Assessment with the thresholds themselves left in the band below
Assessment_StrictBands(match_score) ==
    IF match_score > StrongScore
    THEN <<83,116,114,111,110,103,32,97,108,105,103,110,109,101,110,116,32,119,105,116,104,32,116,104,101,32,106,111,98,32,114,101,113,117,105,114,101,109,101,110,116,115,46,32>> (* Strong alignment with the job requirements.  *)
         \o <<84,104,101,32,99,97,110,100,105,100,97,116,101,32,100,101,109,111,110,115,116,114,97,116,101,115,32,115,111,108,105,100,32,116,101,99,104,110,105,99,97,108,32,99,111,109,112,97,116,105,98,105,108,105,116,121,32,97,110,100,32,114,101,108,101,118,97,110,116,32,101,120,112,101,114,105,101,110,99,101,46>> (* The candidate demonstrates solid technical compatibility and relevant experience. *)
    ELSE IF match_score > ModerateScore
    THEN <<77,111,100,101,114,97,116,101,32,97,108,105,103,110,109,101,110,116,32,119,105,116,104,32,116,104,101,32,106,111,98,32,100,101,115,99,114,105,112,116,105,111,110,46,32>> (* Moderate alignment with the job description.  *)
         \o <<83,111,109,101,32,105,109,112,111,114,116,97,110,116,32,115,107,105,108,108,115,32,97,114,101,32,112,114,101,115,101,110,116,44,32,98,117,116,32,105,109,112,114,111,118,101,109,101,110,116,115,32,97,114,101,32,110,101,101,100,101,100,46>> (* Some important skills are present, but improvements are needed. *)
    ELSE <<76,111,119,32,97,108,105,103,110,109,101,110,116,32,119,105,116,104,32,116,104,101,32,106,111,98,32,100,101,115,99,114,105,112,116,105,111,110,46,32>> (* Low alignment with the job description.  *)
         \o <<83,101,118,101,114,97,108,32,107,101,121,32,115,107,105,108,108,115,32,97,110,100,32,101,120,112,101,114,105,101,110,99,101,115,32,97,114,101,32,109,105,115,115,105,110,103,46>> (* Several key skills and experiences are missing. *)

\* lines 15-29
Assessment(match_score) ==
    IF match_score >= StrongScore
    THEN <<83,116,114,111,110,103,32,97,108,105,103,110,109,101,110,116,32,119,105,116,104,32,116,104,101,32,106,111,98,32,114,101,113,117,105,114,101,109,101,110,116,115,46,32>> (* Strong alignment with the job requirements.  *)
         \o <<84,104,101,32,99,97,110,100,105,100,97,116,101,32,100,101,109,111,110,115,116,114,97,116,101,115,32,115,111,108,105,100,32,116,101,99,104,110,105,99,97,108,32,99,111,109,112,97,116,105,98,105,108,105,116,121,32,97,110,100,32,114,101,108,101,118,97,110,116,32,101,120,112,101,114,105,101,110,99,101,46>> (* The candidate demonstrates solid technical compatibility and relevant experience. *)
    ELSE IF match_score >= ModerateScore
    THEN <<77,111,100,101,114,97,116,101,32,97,108,105,103,110,109,101,110,116,32,119,105,116,104,32,116,104,101,32,106,111,98,32,100,101,115,99,114,105,112,116,105,111,110,46,32>> (* Moderate alignment with the job description.  *)
         \o <<83,111,109,101,32,105,109,112,111,114,116,97,110,116,32,115,107,105,108,108,115,32,97,114,101,32,112,114,101,115,101,110,116,44,32,98,117,116,32,105,109,112,114,111,118,101,109,101,110,116,115,32,97,114,101,32,110,101,101,100,101,100,46>> (* Some important skills are present, but improvements are needed. *)
    ELSE <<76,111,119,32,97,108,105,103,110,109,101,110,116,32,119,105,116,104,32,116,104,101,32,106,111,98,32,100,101,115,99,114,105,112,116,105,111,110,46,32>> (* Low alignment with the job description.  *)
         \o <<83,101,118,101,114,97,108,32,107,101,121,32,115,107,105,108,108,115,32,97,110,100,32,101,120,112,101,114,105,101,110,99,101,115,32,97,114,101,32,109,105,115,115,105,110,103,46>> (* Several key skills and experiences are missing. *)

StrengthBullet(skill) == <<8226,32,68,101,109,111,110,115,116,114,97,116,101,100,32,101,120,112,101,114,105,101,110,99,101,32,105,110,32>> (* U+2022 Demonstrated experience in  *) \o skill
GapBullet(skill) == <<8226,32,67,111,110,115,105,100,101,114,32,97,100,100,105,110,103,32,112,114,97,99,116,105,99,97,108,32,101,120,112,101,114,105,101,110,99,101,32,119,105,116,104,32>> (* U+2022 Consider adding practical experience with  *) \o skill

\* Strengths with a bullet for every entry
Strengths_All(matched_skills) ==
    IF matched_skills # << >>
    THEN [i \in DOMAIN matched_skills |-> StrengthBullet(matched_skills[i])]
    ELSE << <<8226,32,78,111,32,115,116,114,111,110,103,32,115,107,105,108,108,32,109,97,116,99,104,101,115,32,105,100,101,110,116,105,102,105,101,100,46>> (* U+2022 No strong skill matches identified. *) >>

\* the bullets of section 2
Strengths(matched_skills) ==
    IF matched_skills # << >>
    THEN LET first == Prefix(matched_skills, StrengthsLimit)
         IN  [i \in DOMAIN first |-> StrengthBullet(first[i])]
    ELSE << <<8226,32,78,111,32,115,116,114,111,110,103,32,115,107,105,108,108,32,109,97,116,99,104,101,115,32,105,100,101,110,116,105,102,105,101,100,46>> (* U+2022 No strong skill matches identified. *) >>

\* Gaps cut to the first entries, as Strengths is
Gaps_FirstFive(missing_skills) ==
    IF missing_skills # << >>
    THEN LET first == Prefix(missing_skills, StrengthsLimit)
         IN  [i \in DOMAIN first |-> GapBullet(first[i])]
    ELSE << <<8226,32,82,101,115,117,109,101,32,97,108,114,101,97,100,121,32,99,111,118,101,114,115,32,109,111,115,116,32,114,101,113,117,105,114,101,100,32,115,107,105,108,108,115,46>> (* U+2022 Resume already covers most required skills. *) >>

\* the bullets of section 3
Gaps(missing_skills) ==
    IF missing_skills # << >>
    THEN [i \in DOMAIN missing_skills |-> GapBullet(missing_skills[i])]
    ELSE << <<8226,32,82,101,115,117,109,101,32,97,108,114,101,97,100,121,32,99,111,118,101,114,115,32,109,111,115,116,32,114,101,113,117,105,114,101,100,32,115,107,105,108,108,115,46>> (* U+2022 Resume already covers most required skills. *) >>

Recommendations == <<
    <<10,61,61,61,61,61,61,61,61,61,61,32,83,80,69,67,73,70,73,67,32,82,69,67,79,77,77,69,78,68,65,84,73,79,78,83,32,61,61,61,61,61,61,61,61,61,61>> (* \n========== SPECIFIC RECOMMENDATIONS ========== *),
    <<8226,32,65,100,100,32,109,101,97,115,117,114,97,98,108,101,32,97,99,104,105,101,118,101,109,101,110,116,115,32,40,101,46,103,46,44,32,105,109,112,114,111,118,101,100,32,101,102,102,105,99,105,101,110,99,121,32,98,121,32,51,48,37,41,46>> (* U+2022 Add measurable achievements (e.g., improved efficiency by 30%). *),
    <<8226,32,73,110,99,108,117,100,101,32,109,111,114,101,32,116,101,99,104,110,105,99,97,108,32,100,101,116,97,105,108,115,32,97,98,111,117,116,32,121,111,117,114,32,112,114,111,106,101,99,116,115,46>> (* U+2022 Include more technical details about your projects. *),
    <<8226,32,65,108,105,103,110,32,114,101,115,117,109,101,32,107,101,121,119,111,114,100,115,32,101,120,97,99,116,108,121,32,119,105,116,104,32,106,111,98,32,100,101,115,99,114,105,112,116,105,111,110,32,107,101,121,119,111,114,100,115,46>> (* U+2022 Align resume keywords exactly with job description keywords. *),
    <<8226,32,72,105,103,104,108,105,103,104,116,32,102,114,97,109,101,119,111,114,107,115,44,32,116,111,111,108,115,44,32,97,110,100,32,116,101,99,104,110,111,108,111,103,105,101,115,32,99,108,101,97,114,108,121,46>> (* U+2022 Highlight frameworks, tools, and technologies clearly. *),
    <<8226,32,65,100,100,32,71,105,116,72,117,98,44,32,112,111,114,116,102,111,108,105,111,44,32,111,114,32,108,105,118,101,32,112,114,111,106,101,99,116,32,108,105,110,107,115,46>> (* U+2022 Add GitHub, portfolio, or live project links. *) >>

Rewrites == <<
    <<10,61,61,61,61,61,61,61,61,61,61,32,82,69,83,85,77,69,32,82,69,87,82,73,84,69,32,83,85,71,71,69,83,84,73,79,78,83,32,61,61,61,61,61,61,61,61,61,61>> (* \n========== RESUME REWRITE SUGGESTIONS ========== *),
    <<10,66,101,102,111,114,101,58,32,87,111,114,107,101,100,32,111,110,32,97,32,119,101,98,32,100,101,118,101,108,111,112,109,101,110,116,32,112,114,111,106,101,99,116,46>> (* \nBefore: Worked on a web development project. *),
    <<65,102,116,101,114,58,32,68,101,118,101,108,111,112,101,100,32,97,32,115,99,97,108,97,98,108,101,32,119,101,98,32,97,112,112,108,105,99,97,116,105,111,110,32,117,115,105,110,103,32,80,121,116,104,111,110,32,97,110,100,32,70,108,97,115,107,44,32>> (* After: Developed a scalable web application using Python and Flask,  *)
        \o <<114,101,100,117,99,105,110,103,32,115,101,114,118,101,114,32,114,101,115,112,111,110,115,101,32,116,105,109,101,32,98,121,32,52,48,37,32,97,110,100,32,105,109,112,114,111,118,105,110,103,32,117,115,101,114,32,101,120,112,101,114,105,101,110,99,101,46>> (* reducing server response time by 40% and improving user experience. *),
    <<10,66,101,102,111,114,101,58,32,82,101,115,112,111,110,115,105,98,108,101,32,102,111,114,32,100,97,116,97,98,97,115,101,32,109,97,110,97,103,101,109,101,110,116,46>> (* \nBefore: Responsible for database management. *),
    <<65,102,116,101,114,58,32,68,101,115,105,103,110,101,100,32,97,110,100,32,111,112,116,105,109,105,122,101,100,32,83,81,76,32,100,97,116,97,98,97,115,101,32,115,99,104,101,109,97,115,44,32>> (* After: Designed and optimized SQL database schemas,  *)
        \o <<105,109,112,114,111,118,105,110,103,32,113,117,101,114,121,32,112,101,114,102,111,114,109,97,110,99,101,32,98,121,32,51,53,37,46>> (* improving query performance by 35%. *) >>

\* the suggestions list before it is joined
SuggestionLines(match_score, matched_skills, missing_skills) ==
    << <<61,61,61,61,61,61,61,61,61,61,32,79,86,69,82,65,76,76,32,65,83,83,69,83,83,77,69,78,84,32,61,61,61,61,61,61,61,61,61,61>> (* ========== OVERALL ASSESSMENT ========== *), Assessment(match_score) >>
    \o << <<10,61,61,61,61,61,61,61,61,61,61,32,75,69,89,32,83,84,82,69,78,71,84,72,83,32,61,61,61,61,61,61,61,61,61,61>> (* \n========== KEY STRENGTHS ========== *) >>
    \o Strengths(matched_skills)
    \o << <<10,61,61,61,61,61,61,61,61,61,61,32,65,82,69,65,83,32,70,79,82,32,73,77,80,82,79,86,69,77,69,78,84,32,61,61,61,61,61,61,61,61,61,61>> (* \n========== AREAS FOR IMPROVEMENT ========== *) >>
    \o Gaps(missing_skills)
    \o Recommendations
    \o Rewrites

get_resume_suggestions(resume, job, match_score, matched_skills, missing_skills) ==
    Join(SuggestionLines(match_score, matched_skills, missing_skills), <<10>> (* \n *))

-----------------------------------------------------------------------------
(* parser.py.  A file is [kind, parts]: kind is what its bytes are ("pdf",  *)
(* "docx" or "garbage"), parts the pages of a PDF or the paragraphs of a   *)
(* DOCX.  A page is what page.extract_text() gives for it, a str, which   *)
(* is "" for a page without characters.                                   *)

PageText(s) == [text |-> s]

\* s.endswith(suffix)
EndsWith(s, suffix) ==
    /\ Len(suffix) <= Len(s)
    /\ SubSeq(s, Len(s) - Len(suffix) + 1, Len(s)) = suffix

\* PdfPages with a page that has no text skipped
PdfPages_SkipEmpty(pages, text) ==
    Returned(text \o Concat([k \in DOMAIN pages |->
                                IF pages[k].text = << >> THEN << >>
                                ELSE pages[k].text \o <<10>> (* \n *)]))

\* the loop over pdf.pages, text being what was read before it:
\* text += page.extract_text() + "\n"
PdfPages(pages, text) ==
    Returned(text \o Concat([k \in DOMAIN pages |-> pages[k].text \o <<10>> (* \n *)]))

extract_text_from_pdf(file) ==
    IF file.kind # "pdf"
    THEN Raised("PDFSyntaxError")   \* pdfplumber.open
    ELSE PdfPages(file.parts, << >>)

\* the loop over doc.paragraphs: text += paragraph.text + "\n"
DocxParagraphs(paragraphs, text) ==
    text \o Concat([k \in DOMAIN paragraphs |-> paragraphs[k].text \o <<10>> (* \n *)])

extract_text_from_docx(file) ==
    IF file.kind # "docx"
    THEN Raised("PackageNotFoundError")   \* Document(file_path)
    ELSE Returned(DocxParagraphs(file.parts, << >>))

UnsupportedMessage == <<69,82,82,79,82,58,32,70,105,108,101,32,109,117,115,116,32,98,101,32,46,112,100,102,32,111,114,32,46,100,111,99,120>> (* ERROR: File must be .pdf or .docx *)

\* extract_text(file_path), file being the file at that path
extract_text(file_path, file) ==
    IF EndsWith(file_path, <<46,112,100,102>> (* .pdf *)) THEN extract_text_from_pdf(file)
    ELSE IF EndsWith(file_path, <<46,100,111,99,120>> (* .docx *)) THEN extract_text_from_docx(file)
    ELSE Returned(UnsupportedMessage)

-----------------------------------------------------------------------------
(* Inputs *)

\* every concatenation of at most n fragments
Texts(frags, n) == {Concat(s) : s \in UNION {[1..k -> frags] : k \in 0..n}}

PairFrags == {
    <<80,121,116,104,111,110,32>> (* Python  *),
    <<74,97,118,97,83,99,114,105,112,116,44,32,82,101,97,99,116,44,32,78,111,83,81,76,44,32,68,111,99,107,101,114,44,32,71,105,116,59,32>> (* JavaScript, React, NoSQL, Docker, Git;  *),
    <<97,32>> (* a  *) }

PhoneFrags == {
    <<67,97,108,108,32,40,53,53,53,41,32>> (* Call (555)  *), <<49,50,51,45,52,53,54,55,32,110,111,119>> (* 123-4567 now *), <<43,57,49,32,49,50,51,52,53,54,55,56,57,48>> (* +91 1234567890 *), <<53,53,53,46>> (* 555. *), <<49,50,51,52,53,54,55>> (* 1234567 *), <<49,50,32>> (* 12  *),
    <<1637,1637,1637,160>> (* \u0665\u0665\u0665\xa0 *) }

EmailFrags == {
    <<67,111,110,116,97,99,116,58,32,106,97,110,101,46,100,111,101>> (* Contact: jane.doe *), <<64,101,120,97,109,112,108,101,46,99,111,109,32,102,111,114,32,105,110,102,111>> (* @example.com for info *), <<64>> (* @ *), <<120,46,121>> (* x.y *), <<32,97,95,98,64,99,45,100,46,101>> (*  a_b@c-d.e *),
    <<233>> (* \xe9 *) }

SkillFrags == { <<80,121,116,104,111,110,32>> (* Python  *), <<80,89,84,72,79,78,32>> (* PYTHON  *), <<112,121,116,104,111,110,32>> (* python  *), <<67,43,43,32,38,32,78,111,100,101,46,106,115,32>> (* C++ & Node.js  *), <<8490,111,116,108,105,110,32>> (* \u212aotlin  *) }

NameFrags == {
    <<82,69,83,85,77,69,10,10,10,10,10>> (* RESUME\n\n\n\n\n *),
    <<10>> (* \n *),
    <<74,111,104,110,32,68,111,101,10>> (* John Doe\n *),
    <<32,32,74,97,110,101,32,82,111,101,32,10>> (*   Jane Roe \n *),
    <<84,101,108,32,53,53,53,10>> (* Tel 555\n *),
    <<11,84,101,108,32,1635,178,160,10>> (* \x0bTel \u0663\xb2\xa0\n *),
    <<77,114,32,77,99,86,101,121,10>> (* Mr McVey\n *),
    <<69,120,112,101,114,105,101,110,99,101,100,32,101,110,103,105,110,101,101,114,32,97,110,100,32,116,101,97,109,32,108,101,97,100,32,119,105,116,104,32,109,97,110,121,32,121,101,97,114,115,10>> (* Experienced engineer and team lead with many years\n *) }

PairTexts == Texts(PairFrags, MaxFrags)

\* s * n
Repeat(s, n) == Concat([k \in 1..n |-> s])

\* (resume_text, job_description): pairs for the two-text functions, single
\* texts for the others
Inputs ==
    (PairTexts \X PairTexts)
    \cup { <<<<80,121,116,104,111,110,32,97,110,100,32,83,81,76>> (* Python and SQL *), <<80,121,116,104,111,110,44,32,83,81,76>> (* Python, SQL *)>>,
           <<<<201,99,111,108,101,32,913,931,32,97,112,304>> (* \xc9cole \u0391\u03a3 ap\u0130 *), <<201,99,111,108,101,32,913,931,32,97,112,304>> (* \xc9cole \u0391\u03a3 ap\u0130 *)>>,
           <<<<233,99,111,108,101,32,945,962,32,65,80,73>> (* \xe9cole \u03b1\u03c2 API *), <<201,67,79,76,69,32,913,931,32,97,112,304>> (* \xc9COLE \u0391\u03a3 ap\u0130 *)>>,
           <<<<233>> (* \xe9 *), <<233>> (* \xe9 *)>>,
           <<<<304,304>> (* \u0130\u0130 *), <<304,304>> (* \u0130\u0130 *)>>,
           <<<<112,121,116,104,111,110>> (* python *), <<112,121,116,104,111,110,32,112,121,116,104,111,110,32,112,121,116,104,111,110,32,115,113,108>> (* python python python sql *)>>,
           <<Repeat(<<97,98,32>> (* ab  *), 33), Repeat(<<97,98,32>> (* ab  *), 33)>>,
           <<Repeat(<<97,98,32>> (* ab  *), 40) \o <<99,100>> (* cd *), <<97,98,32,99,100>> (* ab cd *)>>,
           <<<<97,98,32,99,100,32,101,102,32,103,104,32,105,106,32,105,106>> (* ab cd ef gh ij ij *),
             <<97,98,32,99,100,32>> (* ab cd  *) \o Repeat(<<101,102,32>> (* ef  *), 3) \o Repeat(<<103,104,32>> (* gh  *), 6) \o Repeat(<<105,106,32>> (* ij  *), 9)>> }
    \cup (Texts(SkillFrags, MaxFrags) \X {<< >>})
    \cup (Texts(NameFrags, MaxFrags) \X {<< >>})
    \cup (Texts(PhoneFrags, MaxFrags) \X {<< >>})
    \cup (Texts(EmailFrags, MaxFrags) \X {<< >>})

-----------------------------------------------------------------------------
(* Spec: one function applied to the drawn inputs *)

fnVars == <<fn, ret>>
appVars == <<pc, uploaded_file, tmp_path, tmp_files, calls, info, score,
             keywords, suggestions, shown, errors>>
vars == <<resume_text, job_description, fnVars, appVars>>

NoUpload == [name |-> << >>, kind |-> "none", parts |-> << >>]

\* the script has not run: nothing written, called, computed or rendered
AppIdle ==
    /\ pc = "analyze"
    /\ tmp_path = << >>
    /\ tmp_files = {}
    /\ calls = << >>
    /\ info = "unset"
    /\ score = "unset"
    /\ keywords = "unset"
    /\ suggestions = "unset"
    /\ shown = << >>
    /\ errors = << >>

Init ==
    /\ \E in \in Inputs : resume_text = in[1] /\ job_description = in[2]
    /\ fn = "none"
    /\ ret = "none"
    /\ uploaded_file = NoUpload
    /\ AppIdle

CallExtractSkills ==
    /\ fn = "none"
    /\ fn' = "extract_skills"
    /\ ret' = extract_skills(resume_text)
    /\ UNCHANGED <<resume_text, job_description, appVars>>

CallExtractName ==
    /\ fn = "none"
    /\ fn' = "extract_name"
    /\ ret' = extract_name(resume_text)
    /\ UNCHANGED <<resume_text, job_description, appVars>>

CallExtractPhone ==
    /\ fn = "none"
    /\ fn' = "extract_phone"
    /\ ret' = extract_phone(resume_text)
    /\ UNCHANGED <<resume_text, job_description, appVars>>

CallExtractEmail ==
    /\ fn = "none"
    /\ fn' = "extract_email"
    /\ ret' = extract_email(resume_text)
    /\ UNCHANGED <<resume_text, job_description, appVars>>

CallExtractAll ==
    /\ fn = "none"
    /\ fn' = "extract_all"
    /\ ret' = extract_all(resume_text)
    /\ UNCHANGED <<resume_text, job_description, appVars>>

CallCalculateMatchScore ==
    /\ fn = "none"
    /\ fn' = "calculate_match_score"
    /\ \E float_error \in FloatErrors :
          ret' = calculate_match_score(resume_text, job_description, float_error)
    /\ UNCHANGED <<resume_text, job_description, appVars>>

CallGetMatchingKeywords ==
    /\ fn = "none"
    /\ fn' = "get_matching_keywords"
    /\ ret' = get_matching_keywords(resume_text, job_description)
    /\ UNCHANGED <<resume_text, job_description, appVars>>

\* the score handed to the composer is drawn, so that every band is met; the
\* lists are the matcher's, as in app.py and in suggester.py run as a script
ScoreInputs == {0, 4999, 5000, 7499, 7500, 8000, 10000}

\* the report for a score and the lists of a keyword match
SuggestionsFor(match_score, kw) ==
    [match_score |-> match_score,
     matched_skills |-> kw.matched,
     missing_skills |-> kw.missing,
     report |-> get_resume_suggestions(resume_text, job_description,
                    match_score, kw.matched, kw.missing)]

CallGetResumeSuggestions ==
    /\ fn = "none"
    /\ fn' = "get_resume_suggestions"
    /\ LET kw == get_matching_keywords(resume_text, job_description)
       IN  \E match_score \in ScoreInputs : ret' = SuggestionsFor(match_score, kw)
    /\ UNCHANGED <<resume_text, job_description, appVars>>

Next ==
    \/ CallExtractSkills
    \/ CallExtractName
    \/ CallExtractPhone
    \/ CallExtractEmail
    \/ CallExtractAll
    \/ CallCalculateMatchScore
    \/ CallGetMatchingKeywords
    \/ CallGetResumeSuggestions

Spec == Init /\ [][Next]_vars

-----------------------------------------------------------------------------
(* app.py: one run of the script with the Analyze button pressed *)

\* os.path.splitext(name)[1] of a name without directory part
Splitext(name) ==
    LET dots == {i \in DOMAIN name : name[i] = 46 (* . *)}
        last == CHOOSE i \in dots : \A j \in dots : j <= i
    IN  IF dots = {} \/ \A j \in 1..(last - 1) : name[j] = 46 (* . *)
        THEN << >>
        ELSE From(name, last)

\* tempfile.gettempdir(): the first usable directory of the environment
TempDirs == { <<47,116,109,112>> (* /tmp *), <<47,118,97,114,47,116,109,112>> (* /var/tmp *) }

\* the characters of the random part of a temp name, 8 of them in a name
TmpNameChars == Range(<<97,98,99,100,101,102,103,104,105,106,107,108,109,110,111,112,113,114,115,116,117,118,119,120,121,122,48,49,50,51,52,53,54,55,56,57,95>> (* abcdefghijklmnopqrstuvwxyz0123456789_ *))
TmpNameLen == 8

\* the random parts drawn here, out of the TmpNameChars sequences of length 8
RandomNames == { <<107,51,120,57,113,95,97,98>> (* k3x9q_ab *), <<95,48,122,55,109,50,112,100>> (* _0z7m2pd *) }

\* tempfile.NamedTemporaryFile(delete=False, suffix=...).name
TmpName(dir, random, suffix) == dir \o <<47,116,109,112>> (* /tmp *) \o random \o suffix

\* the names st.file_uploader(type=["pdf", "docx"]) lets through: it compares
\* the extension without regard to case
UploadNames == { <<99,118,46,112,100,102>> (* cv.pdf *), <<99,118,46,100,111,99,120>> (* cv.docx *), <<67,86,46,80,68,70>> (* CV.PDF *) }

PageResults == { PageText(<< >>), PageText(<<80,121,116,104,111,110,32>> (* Python  *)), PageText(<<97,32>> (* a  *)) }
Paragraphs == PageResults

SeqsUpTo(S, n) == UNION {[1..k -> S] : k \in 0..n}

FileContents ==
    {[kind |-> "garbage", parts |-> << >>]}
    \cup {[kind |-> "pdf", parts |-> ps] : ps \in SeqsUpTo(PageResults, MaxPages)}
    \cup {[kind |-> "docx", parts |-> ps] : ps \in SeqsUpTo(Paragraphs, MaxPages)}

Uploads ==
    {[name |-> n, kind |-> c.kind, parts |-> c.parts] :
        n \in UploadNames, c \in FileContents}

JobInputs == { << >>, <<32,10>> (*  \n *), <<11,160>> (* \x0b\xa0 *), <<80,121,116,104,111,110,32>> (* Python  *), <<97,32>> (* a  *) }

AppInit ==
    /\ uploaded_file \in {NoUpload} \cup Uploads
    /\ job_description \in JobInputs
    /\ resume_text = << >>
    /\ fn = "none"
    /\ ret = "none"
    /\ AppIdle

Error(text, detail) == [text |-> text, detail |-> detail]

\* the validation without the test of the job description
Analyze_UploadOnly ==
    /\ pc = "analyze"
    /\ IF uploaded_file = NoUpload
       THEN /\ errors' = Append(errors, Error("Please upload a resume first!", ""))
            /\ pc' = "done"
       ELSE /\ errors' = errors
            /\ pc' = "save"
    /\ UNCHANGED <<resume_text, job_description, fnVars, uploaded_file, tmp_path,
                   tmp_files, calls, info, score, keywords, suggestions, shown>>

\* lines 62-68: the validation of the two inputs
Analyze ==
    /\ pc = "analyze"
    /\ IF uploaded_file = NoUpload
       THEN /\ errors' = Append(errors, Error("Please upload a resume first!", ""))
            /\ pc' = "done"
       ELSE IF Strip(job_description) = << >>
       THEN /\ errors' = Append(errors, Error("Please paste a job description!", ""))
            /\ pc' = "done"
       ELSE /\ errors' = errors
            /\ pc' = "save"
    /\ UNCHANGED <<resume_text, job_description, fnVars, uploaded_file, tmp_path,
                   tmp_files, calls, info, score, keywords, suggestions, shown>>

\* lines 74-76: the upload is written to a temp file that outlives the with block
SaveUpload ==
    /\ pc = "save"
    /\ \E dir \in TempDirs, random \in RandomNames :
          /\ Len(random) = TmpNameLen /\ Range(random) \subseteq TmpNameChars
          /\ TmpName(dir, random, Splitext(uploaded_file.name)) \notin tmp_files
          /\ tmp_path' = TmpName(dir, random, Splitext(uploaded_file.name))
    /\ tmp_files' = tmp_files \cup {tmp_path'}
    /\ pc' = "extract_text"
    /\ UNCHANGED <<resume_text, job_description, fnVars, uploaded_file, calls,
                   info, score, keywords, suggestions, shown, errors>>

\* line 79
ExtractText ==
    /\ pc = "extract_text"
    /\ calls' = Append(calls, "extract_text")
    /\ LET r == extract_text(tmp_path, uploaded_file)
       IN  IF r.exc # "None"
           THEN /\ pc' = "except_" \o r.exc
                /\ resume_text' = resume_text
           ELSE /\ pc' = "extract_all"
                /\ resume_text' = r.value
    /\ UNCHANGED <<job_description, fnVars, uploaded_file, tmp_path, tmp_files,
                   info, score, keywords, suggestions, shown, errors>>

\* line 82
ExtractAll ==
    /\ pc = "extract_all"
    /\ calls' = Append(calls, "extract_all")
    /\ info' = extract_all(resume_text)
    /\ pc' = "calculate_match_score"
    /\ UNCHANGED <<resume_text, job_description, fnVars, uploaded_file, tmp_path,
                   tmp_files, score, keywords, suggestions, shown, errors>>

\* line 85
CalculateMatchScore ==
    /\ pc = "calculate_match_score"
    /\ calls' = Append(calls, "calculate_match_score")
    /\ \E float_error \in FloatErrors :
          LET r == calculate_match_score(resume_text, job_description, float_error)
          IN  IF r.exc # "None"
              THEN /\ pc' = "except_" \o r.exc
                   /\ score' = score
              ELSE /\ pc' = "get_matching_keywords"
                   /\ score' = r.value
    /\ UNCHANGED <<resume_text, job_description, fnVars, uploaded_file, tmp_path,
                   tmp_files, info, keywords, suggestions, shown, errors>>

\* line 88
GetMatchingKeywords ==
    /\ pc = "get_matching_keywords"
    /\ calls' = Append(calls, "get_matching_keywords")
    /\ keywords' = get_matching_keywords(resume_text, job_description)
    /\ pc' = "unlink"
    /\ UNCHANGED <<resume_text, job_description, fnVars, uploaded_file, tmp_path,
                   tmp_files, info, score, suggestions, shown, errors>>

\* line 91: os.unlink(tmp_path)
Unlink ==
    /\ pc = "unlink"
    /\ tmp_files' = tmp_files \ {tmp_path}
    /\ pc' = "display"
    /\ UNCHANGED <<resume_text, job_description, fnVars, uploaded_file, tmp_path,
                   calls, info, score, keywords, suggestions, shown, errors>>

ExcellentScore == 7000
GoodScore == 5000

\* lines 103-111: the banner of the score
Banner(s) ==
    IF s >= ExcellentScore THEN "EXCELLENT MATCH"
    ELSE IF s >= GoodScore THEN "GOOD MATCH"
    ELSE "WEAK MATCH"

\* the decimal digits of a natural number
RECURSIVE DecimalStr(_)
DecimalStr(n) ==
    IF n < 10 THEN <<48 (* 0 *) + n>> ELSE DecimalStr(n \div 10) \o <<48 (* 0 *) + (n % 10)>>

\* str() of the float of a score, given in hundredths: 45.0, 45.5, 45.05
FormatScore(s) ==
    DecimalStr(s \div 100) \o <<46>> (* . *) \o DecimalStr((s % 100) \div 10)
    \o (IF s % 10 = 0 THEN << >> ELSE DecimalStr(s % 10))

\* lines 110-111: the banner of a weak match is shown with st.error
BannerErrors(s) ==
    IF s >= GoodScore THEN << >>
    ELSE << Error("# {score}%", FormatScore(s)),
            Error("**WEAK MATCH.** Candidate may need significant additional training or experience.", "") >>

\* lines 96-166: score, skills and candidate sections
Display ==
    /\ pc = "display"
    /\ shown' = shown \o <<Banner(score), "skills", "candidate">>
    /\ errors' = errors \o BannerErrors(score)
    /\ pc' = "get_resume_suggestions"
    /\ UNCHANGED <<resume_text, job_description, fnVars, uploaded_file, tmp_path,
                   tmp_files, calls, info, score, keywords, suggestions>>

\* lines 173-195: the suggestions, the text preview and the closing message
Suggest ==
    /\ pc = "get_resume_suggestions"
    /\ calls' = Append(calls, "get_resume_suggestions")
    /\ suggestions' = get_resume_suggestions(resume_text, job_description, score,
                                             keywords.matched, keywords.missing)
    /\ shown' = shown \o <<"suggestions", "preview", "Analysis complete!">>
    /\ pc' = "done"
    /\ UNCHANGED <<resume_text, job_description, fnVars, uploaded_file, tmp_path,
                   tmp_files, info, score, keywords, errors>>

Raising == {"except_PDFSyntaxError",
            "except_PackageNotFoundError", "except_ValueError"}

\* lines 197-199: except Exception
Except ==
    /\ pc \in Raising
    /\ errors' = errors \o << Error("An error occurred", pc),
                              Error("Please make sure the file is a valid PDF or DOCX document.", "") >>
    /\ pc' = "done"
    /\ UNCHANGED <<resume_text, job_description, fnVars, uploaded_file, tmp_path,
                   tmp_files, calls, info, score, keywords, suggestions, shown>>

AppNext ==
    \/ Analyze
    \/ SaveUpload
    \/ ExtractText
    \/ ExtractAll
    \/ CalculateMatchScore
    \/ GetMatchingKeywords
    \/ Unlink
    \/ Display
    \/ Suggest
    \/ Except

AppSpec == AppInit /\ [][AppNext]_vars

-----------------------------------------------------------------------------
(* Properties *)

\* the vocabulary keywords present in the lowercased job text
KeywordsInJob ==
    LET job_lower == Lower(job_description)
    IN  {kw \in Range(important_keywords) : Contains(kw, job_lower)}

\* C1: for every (resume_text, job_text), the result of get_matching_keywords
\* has match_count + len(missing) = total_required and match_count =
\* len(matched); matched and missing are disjoint, and together they are
\* exactly the vocabulary keywords that are substrings of the lowercased job
\* text.
C1_MatchResultInvariant ==
    fn = "get_matching_keywords" =>
        /\ ret.match_count + Len(ret.missing) = ret.total_required
        /\ ret.match_count = Len(ret.matched)
        /\ Range(ret.matched) \cap Range(ret.missing) = {}
        /\ Range(ret.matched) \cup Range(ret.missing) = KeywordsInJob

\* a call that gave both matched and missing keywords
C1_Witness ==
    /\ fn = "get_matching_keywords"
    /\ ret.matched # << >>
    /\ ret.missing # << >>
    /\ ret.total_required > Len(ret.matched)

\* the skills of the vocabulary present in the lowercased text
SkillsInText ==
    LET text_lower == Lower(resume_text)
    IN  {sk \in Range(SKILLS_LIST) : Contains(sk, text_lower)}

\* C10: extract_skills is case-insensitive and duplicate-free: the result
\* holds exactly the SkillVocabulary terms that are substrings of the
\* lowercased text, each exactly once, whatever the casing and the number of
\* occurrences of the term in the text.
C10_SkillsCaseInsensitiveOnce ==
    fn = "extract_skills" =>
        /\ BagToSet(ret) = SkillsInText
        /\ \A sk \in BagToSet(ret) : CopiesIn(sk, ret) = 1
        /\ BagCardinality(ret) = Cardinality(SkillsInText)

\* "Python" and "PYTHON" in one text give "python" once
C10_Witness ==
    /\ fn = "extract_skills"
    /\ Contains(<<80,121,116,104,111,110>> (* Python *), resume_text)
    /\ Contains(<<80,89,84,72,79,78>> (* PYTHON *), resume_text)
    /\ CopiesIn(<<112,121,116,104,111,110>> (* python *), ret) = 1

\* what the claims of extract_name ask of one line
HeaderWords == { <<114,101,115,117,109,101>> (* resume *), <<99,117,114,114,105,99,117,108,117,109>> (* curriculum *), <<118,105,116,97,101>> (* vitae *), <<99,118>> (* cv *), <<112,114,111,102,105,108,101>> (* profile *), <<115,117,109,109,97,114,121>> (* summary *) }
QualifiesAsName(line) ==
    LET l == Strip(line)
    IN  /\ l # << >>
        /\ Len(l) < 50
        /\ \A i \in DOMAIN l : l[i] \notin DigitChars
        /\ \A w \in HeaderWords : ~Contains(w, Lower(l))

\* the first line of lines that qualifies, stripped, or the sentinel
FirstQualifying(lines) ==
    IF \E i \in DOMAIN lines : QualifiesAsName(lines[i])
    THEN Strip(lines[CHOOSE i \in DOMAIN lines :
                        /\ QualifiesAsName(lines[i])
                        /\ \A j \in 1..(i - 1) : ~QualifiesAsName(lines[j])])
    ELSE NotFound

NonBlank(line) == Strip(line) # << >>

\* C8 as stated: extract_name returns the first of the first 5 NON-EMPTY
\* lines of the text that is shorter than 50 characters, has no digit and no
\* header word, and the sentinel only if none of those lines qualifies.
C8_FirstFiveNonEmptyLines ==
    fn = "extract_name" =>
        ret = FirstQualifying(Prefix(SelectSeq(Split(resume_text, 10 (* \n *)), NonBlank), 5))

\* C8, amended: extract_name scans the first 5 lines of the stripped text,
\* blank lines counted, and returns, stripped of surrounding whitespace, the
\* first of them that is non-blank, shorter than 50 characters, has no digit
\* and no header word; it returns the sentinel only if none of those 5 lines
\* qualifies.
C8_FirstFiveLines ==
    fn = "extract_name" =>
        ret = FirstQualifying(Prefix(Split(Strip(resume_text), 10 (* \n *)), 5))

\* a qualifying line lies beyond the fifth line, among the first five
\* non-empty ones, and the sentinel is returned
C8_Witness ==
    /\ fn = "extract_name"
    /\ ret = NotFound
    /\ \E i \in DOMAIN Split(Strip(resume_text), 10 (* \n *)) :
          i > 5 /\ QualifiesAsName(Split(Strip(resume_text), 10 (* \n *))[i])
    /\ Len(SelectSeq(Split(resume_text, 10 (* \n *)), NonBlank)) <= 5

PhoneExample == <<67,97,108,108,32,40,53,53,53,41,32,49,50,51,45,52,53,54,55,32,110,111,119>> (* Call (555) 123-4567 now *)

\* a run of 3, 3 and 4 digits with at most one separator between the runs
\* starts at position i of t
PlainPhoneAt(t, i) ==
    \E a \in {0, 1}, b \in {0, 1} :
        /\ i + 9 + a + b <= Len(t)
        /\ \A k \in 0..2 : t[i + k] \in DecimalChars
        /\ a = 1 => t[i + 3] \in PhoneSepChars
        /\ \A k \in 0..2 : t[i + 3 + a + k] \in DecimalChars
        /\ b = 1 => t[i + 6 + a] \in PhoneSepChars
        /\ \A k \in 0..3 : t[i + 6 + a + b + k] \in DecimalChars

\* C9 as stated: extract_phone returns the groups of the first match with
\* the formatting stripped, "Call (555) 123-4567 now" giving "5551234567",
\* and the sentinel when there is no match.
C9_FormattingStripped ==
    fn = "extract_phone" =>
        /\ resume_text = PhoneExample => ret = <<53,53,53,49,50,51,52,53,54,55>> (* 5551234567 *)
        /\ ret # NotFound => \A i \in DOMAIN ret : ret[i] \in DecimalChars

\* C9, amended: extract_phone returns the captured groups of the first match
\* concatenated with nothing put between them and nothing removed, which is
\* the matched text with its punctuation and spaces: "Call (555) 123-4567
\* now" gives "(555) 123-4567", whose digits are 5551234567; it returns the
\* sentinel when the text has no match.
C9_GroupsConcatenated ==
    fn = "extract_phone" =>
        /\ resume_text = PhoneExample =>
              ret = <<40,53,53,53,41,32,49,50,51,45,52,53,54,55>> (* (555) 123-4567 *) /\ DigitsOnly(ret) = <<53,53,53,49,50,51,52,53,54,55>> (* 5551234567 *)
        /\ ret # NotFound =>
              /\ Contains(ret, resume_text)
              /\ Len(DigitsOnly(ret)) \in 10..13
              /\ \A i \in DOMAIN ret :
                    ret[i] \in DecimalChars \cup PhoneSepChars \cup {43 (* + *), 40 (* [lpar] *), 41 (* [rpar] *)}
        /\ ret = NotFound =>
              ~\E i \in DOMAIN resume_text : PlainPhoneAt(resume_text, i)

\* the example of the claim
C9_Witness ==
    /\ fn = "extract_phone"
    /\ resume_text = PhoneExample
    /\ ret # NotFound

\* no token of the vectorizer in t: no two adjacent word characters in the
\* lowercased text
NoTerms(t) ==
    LET low == Lower(t)
    IN  ~\E i \in 1..(Len(low) - 1) : low[i] \in WordChars /\ low[i + 1] \in WordChars

\* C4: calculate_match_score never raises on empty input:
\* calculate_match_score("", ""), and any call in which the resume text or
\* the job text yields an empty term vector, returns 0.
C4_EmptyInputScoresZero ==
    (fn = "calculate_match_score" /\ (NoTerms(resume_text) \/ NoTerms(job_description)))
        => ret = Returned(0)

\* C7 as stated: for any non-empty a, calculate_match_score(a, a) returns
\* 100.0 and does not raise.
C7_SelfScoreAnyNonEmpty ==
    (fn = "calculate_match_score" /\ resume_text = job_description /\ resume_text # << >>)
        => ret = Returned(10000)

\* the skills of the bullets of a report that start with the template
\* prefix: what follows the prefix up to the end of the line, for each line
\* that starts with the bullet and the prefix, in the order of the lines
BulletSkills(report, prefix) ==
    LET marker == <<8226,32>> (* U+2022  *) \o prefix
        starts == {i \in DOMAIN report :
                     /\ i = 1 \/ report[i - 1] = 10 (* \n *)
                     /\ MatchAt(marker, report, i)}
        LineEnd(i) == CHOOSE e \in i..(Len(report) + 1) :
                         /\ e = Len(report) + 1 \/ report[e] = 10 (* \n *)
                         /\ \A k \in i..(e - 1) : report[k] # 10 (* \n *)
        Nth(n) == CHOOSE i \in starts : Cardinality({j \in starts : j < i}) = n - 1
    IN  [n \in 1..Cardinality(starts) |->
            SubSeq(report, Nth(n) + Len(marker), LineEnd(Nth(n)) - 1)]

StrengthPrefix == <<68,101,109,111,110,115,116,114,97,116,101,100,32,101,120,112,101,114,105,101,110,99,101,32,105,110,32>> (* Demonstrated experience in  *)
GapPrefix == <<67,111,110,115,105,100,101,114,32,97,100,100,105,110,103,32,112,114,97,99,116,105,99,97,108,32,101,120,112,101,114,105,101,110,99,101,32,119,105,116,104,32>> (* Consider adding practical experience with  *)

\* C6 as stated: for every (matched, missing) that get_matching_keywords can
\* produce, the lists re-derived from the bullets of the rendered report by
\* their fixed prefixes are the original matched and missing, in order.
C6_RoundTripExact ==
    fn = "get_resume_suggestions" =>
        /\ BulletSkills(ret.report, StrengthPrefix) = ret.matched_skills
        /\ BulletSkills(ret.report, GapPrefix) = ret.missing_skills

\* C6, amended: the list re-derived from the gap bullets is missing, in
\* order, and the list re-derived from the strength bullets is the first 5
\* entries of matched, in order (matched itself when it has at most 5).
C6_RoundTripFirstFive ==
    fn = "get_resume_suggestions" =>
        /\ BulletSkills(ret.report, StrengthPrefix) = Prefix(ret.matched_skills, 5)
        /\ BulletSkills(ret.report, GapPrefix) = ret.missing_skills

\* a report of more than 5 matched keywords and some missing ones
C6_Witness ==
    /\ fn = "get_resume_suggestions"
    /\ Len(ret.matched_skills) > 5
    /\ ret.missing_skills # << >>
    /\ Len(BulletSkills(ret.report, StrengthPrefix)) = 5

\* the run has ended with the upload written to a temp file
RunEndedAfterSave == pc = "done" /\ "extract_text" \in Range(calls)

\* C2: on every path by which an analysis run ends after the temp file was
\* created, the paths where a function of the pipeline raises included, the
\* temp file has been deleted.
C2_TempFileDiscarded == RunEndedAfterSave => tmp_path \notin tmp_files

AnalysisCalls == {"extract_all", "calculate_match_score", "get_matching_keywords",
                  "get_resume_suggestions"}

\* text extraction was attempted and failed: the format reader raised, or the
\* path ends in neither .pdf nor .docx
ExtractionFailed ==
    /\ "extract_text" \in Range(calls)
    /\ \/ extract_text(tmp_path, uploaded_file).exc # "None"
       \/ ~(EndsWith(tmp_path, <<46,112,100,102>> (* .pdf *)) \/ EndsWith(tmp_path, <<46,100,111,99,120>> (* .docx *)))

\* the message of the except handler is among the st.error messages; the
\* banner of a weak match, shown with st.error as well, is not a failure
FailureShown == \E k \in DOMAIN errors : errors[k].text = "An error occurred"

\* C3: whenever text extraction fails in an analysis run, none of
\* extract_all, calculate_match_score, get_matching_keywords and
\* get_resume_suggestions is invoked, and the run ends with a failure
\* message shown.
C3_NoPartialResults ==
    ExtractionFailed =>
        /\ Range(calls) \cap AnalysisCalls = {}
        /\ pc = "done" => FailureShown

\* the text of each page followed by a newline, a page without text giving
\* an empty line
RECURSIVE PageLines(_)
PageLines(pages) ==
    IF pages = << >> THEN << >>
    ELSE Head(pages).text \o <<10>> (* \n *) \o PageLines(Tail(pages))

\* the exceptions of the format readers
ExtractionRaising == {"except_PDFSyntaxError", "except_PackageNotFoundError"}

\* C5: once text extraction has run on a readable PDF, the text is the text
\* of every page followed by a newline, in page order, a page without text
\* giving an empty line, and the extraction has raised no exception: the
\* run is not in the handler of a reader's exception and shows no message
\* of one.
C5_PdfExtractionTotal ==
    (/\ "extract_text" \in Range(calls)
     /\ uploaded_file.kind = "pdf"
     /\ EndsWith(tmp_path, <<46,112,100,102>> (* .pdf *)))
        => /\ pc \notin ExtractionRaising
           /\ \A k \in DOMAIN errors : errors[k].detail \notin ExtractionRaising
           /\ resume_text = PageLines(uploaded_file.parts)

\* a PDF whose first page has no text and whose second page has some has
\* been read, and the analysis has gone on
C5_Witness ==
    /\ "extract_all" \in Range(calls)
    /\ uploaded_file.kind = "pdf"
    /\ uploaded_file.parts = <<PageText(<< >>), PageText(<<80,121,116,104,111,110,32>> (* Python  *))>>
    /\ resume_text = <<10,80,121,116,104,111,110,32,10>> (* \nPython \n *)

StrongMessage ==
    <<83,116,114,111,110,103,32,97,108,105,103,110,109,101,110,116,32,119,105,116,104,32,116,104,101,32,106,111,98,32,114,101,113,117,105,114,101,109,101,110,116,115,46,32,84,104,101,32,99,97,110,100,105,100,97,116,101,32,100,101,109,111,110,115,116,114,97,116,101,115,32,115,111,108,105,100,32,116,101,99,104,110,105,99,97,108,32,99,111,109,112,97,116,105,98,105,108,105,116,121,32,97,110,100,32,114,101,108,101,118,97,110,116,32,101,120,112,101,114,105,101,110,99,101,46>> (* Strong alignment with the job requirements. The candidate demonstrates solid technical compatibility and relevant experience. *)
ModerateMessage ==
    <<77,111,100,101,114,97,116,101,32,97,108,105,103,110,109,101,110,116,32,119,105,116,104,32,116,104,101,32,106,111,98,32,100,101,115,99,114,105,112,116,105,111,110,46,32,83,111,109,101,32,105,109,112,111,114,116,97,110,116,32,115,107,105,108,108,115,32,97,114,101,32,112,114,101,115,101,110,116,44,32,98,117,116,32,105,109,112,114,111,118,101,109,101,110,116,115,32,97,114,101,32,110,101,101,100,101,100,46>> (* Moderate alignment with the job description. Some important skills are present, but improvements are needed. *)
LowMessage ==
    <<76,111,119,32,97,108,105,103,110,109,101,110,116,32,119,105,116,104,32,116,104,101,32,106,111,98,32,100,101,115,99,114,105,112,116,105,111,110,46,32,83,101,118,101,114,97,108,32,107,101,121,32,115,107,105,108,108,115,32,97,110,100,32,101,120,112,101,114,105,101,110,99,101,115,32,97,114,101,32,109,105,115,115,105,110,103,46>> (* Low alignment with the job description. Several key skills and experiences are missing. *)

\* the message of the band of a score in hundredths
BandMessage(s) ==
    IF s >= 7500 THEN StrongMessage
    ELSE IF s >= 5000 THEN ModerateMessage
    ELSE LowMessage

\* C11: the overall assessment of get_resume_suggestions is selected by the
\* score alone, in three bands: score >= 75 gives the strong-alignment
\* message, 50 <= score < 75 the moderate one, score < 50 the low one, and
\* exactly one line of the report is an assessment message, for every score.
C11_AssessmentBands ==
    fn = "get_resume_suggestions" =>
        /\ MatchAt(<<61,61,61,61,61,61,61,61,61,61,32,79,86,69,82,65,76,76,32,65,83,83,69,83,83,77,69,78,84,32,61,61,61,61,61,61,61,61,61,61,10>> (* ========== OVERALL ASSESSMENT ==========\n *)
                      \o BandMessage(ret.match_score) \o <<10>> (* \n *), ret.report, 1)
        /\ Cardinality({i \in DOMAIN ret.report :
              /\ i = 1 \/ ret.report[i - 1] = 10 (* \n *)
              /\ \E m \in {StrongMessage, ModerateMessage, LowMessage} :
                    MatchAt(m, ret.report, i)}) = 1

\* a score just under the strong band, with keywords on both lists, gets the
\* moderate message
C11_Witness ==
    /\ fn = "get_resume_suggestions"
    /\ ret.match_score = 7499
    /\ ret.matched_skills # << >>
    /\ ret.missing_skills # << >>
    /\ Contains(ModerateMessage, ret.report)

\* the lines of a section as they stand in a report, each ended by a newline
SectionText(lines) == Concat([i \in DOMAIN lines |-> lines[i] \o <<10>> (* \n *)])

\* what the claim asks of the two sections
ExpectedStrengths(matched) ==
    IF matched = << >>
    THEN << <<8226,32,78,111,32,115,116,114,111,110,103,32,115,107,105,108,108,32,109,97,116,99,104,101,115,32,105,100,101,110,116,105,102,105,101,100,46>> (* U+2022 No strong skill matches identified. *) >>
    ELSE [i \in 1..(IF Len(matched) < 5 THEN Len(matched) ELSE 5) |->
            <<8226,32,68,101,109,111,110,115,116,114,97,116,101,100,32,101,120,112,101,114,105,101,110,99,101,32,105,110,32>> (* U+2022 Demonstrated experience in  *) \o matched[i]]
ExpectedGaps(missing) ==
    IF missing = << >>
    THEN << <<8226,32,82,101,115,117,109,101,32,97,108,114,101,97,100,121,32,99,111,118,101,114,115,32,109,111,115,116,32,114,101,113,117,105,114,101,100,32,115,107,105,108,108,115,46>> (* U+2022 Resume already covers most required skills. *) >>
    ELSE [i \in DOMAIN missing |->
            <<8226,32,67,111,110,115,105,100,101,114,32,97,100,100,105,110,103,32,112,114,97,99,116,105,99,97,108,32,101,120,112,101,114,105,101,110,99,101,32,119,105,116,104,32>> (* U+2022 Consider adding practical experience with  *) \o missing[i]]

\* C12: the strengths section of the report lists one "Demonstrated
\* experience in {skill}" bullet for each of at most the first 5 entries of
\* matched, in order, or the single no-strong-matches bullet when matched is
\* empty; the gaps section lists one "Consider adding practical experience
\* with {skill}" bullet for every entry of missing, in order, or the single
\* covers-most-required-skills bullet when missing is empty.
C12_StrengthAndGapSections ==
    fn = "get_resume_suggestions" =>
        Contains(<<10,10,61,61,61,61,61,61,61,61,61,61,32,75,69,89,32,83,84,82,69,78,71,84,72,83,32,61,61,61,61,61,61,61,61,61,61,10>> (* \n\n========== KEY STRENGTHS ==========\n *)
                    \o SectionText(ExpectedStrengths(ret.matched_skills))
                    \o <<10,61,61,61,61,61,61,61,61,61,61,32,65,82,69,65,83,32,70,79,82,32,73,77,80,82,79,86,69,77,69,78,84,32,61,61,61,61,61,61,61,61,61,61,10>> (* \n========== AREAS FOR IMPROVEMENT ==========\n *)
                    \o SectionText(ExpectedGaps(ret.missing_skills))
                    \o <<10,61,61,61,61,61,61,61,61,61,61,32,83,80,69,67,73,70,73,67,32,82,69,67,79,77,77,69,78,68,65,84,73,79,78,83,32,61,61,61,61,61,61,61,61,61,61,10>> (* \n========== SPECIFIC RECOMMENDATIONS ==========\n *),
                 ret.report)

\* the example of the claim: score 80, matched python and sql, nothing missing
C12_Witness ==
    /\ fn = "get_resume_suggestions"
    /\ ret.match_score = 8000
    /\ ret.matched_skills = << <<112,121,116,104,111,110>> (* python *), <<115,113,108>> (* sql *) >>
    /\ ret.missing_skills = << >>
    /\ Contains(<<8226,32,68,101,109,111,110,115,116,114,97,116,101,100,32,101,120,112,101,114,105,101,110,99,101,32,105,110,32,112,121,116,104,111,110,10,8226,32,68,101,109,111,110,115,116,114,97,116,101,100,32,101,120,112,101,114,105,101,110,99,101,32,105,110,32,115,113,108,10>> (* U+2022 Demonstrated experience in python\nU+2022 Demonstrated experience in sql\n *),
                ret.report)
    /\ Contains(<<8226,32,82,101,115,117,109,101,32,97,108,114,101,97,100,121,32,99,111,118,101,114,115,32,109,111,115,116,32,114,101,113,117,105,114,101,100,32,115,107,105,108,108,115,46>> (* U+2022 Resume already covers most required skills. *), ret.report)

\* the position of a keyword in the vocabulary
VocabularyIndex(kw) == CHOOSE i \in DOMAIN important_keywords : important_keywords[i] = kw

\* a list of keywords that follows the order of the vocabulary, no entry twice
InVocabularyOrder(list) ==
    \A i, j \in DOMAIN list :
        i < j => VocabularyIndex(list[i]) < VocabularyIndex(list[j])

\* C13: get_matching_keywords returns matched and missing in vocabulary
\* order, not in the order of appearance in either text: matched is the
\* subsequence of the vocabulary whose entries are substrings of both the
\* lowercased job text and the lowercased resume text, and missing the
\* subsequence whose entries are substrings of the lowercased job text but
\* not of the lowercased resume text.
C13_VocabularyOrder ==
    fn = "get_matching_keywords" =>
        LET job_lower == Lower(job_description)
            resume_lower == Lower(resume_text)
        IN  /\ InVocabularyOrder(ret.matched)
            /\ InVocabularyOrder(ret.missing)
            /\ Range(ret.matched) =
                  {kw \in Range(important_keywords) :
                      Contains(kw, job_lower) /\ Contains(kw, resume_lower)}
            /\ Range(ret.missing) =
                  {kw \in Range(important_keywords) :
                      Contains(kw, job_lower) /\ ~Contains(kw, resume_lower)}

\* python comes last in both texts and first in matched
C13_Witness ==
    /\ fn = "get_matching_keywords"
    /\ MatchAt(<<74,97,118,97,83,99,114,105,112,116>> (* JavaScript *), job_description, 1)
    /\ MatchAt(<<74,97,118,97,83,99,114,105,112,116>> (* JavaScript *), resume_text, 1)
    /\ Len(ret.matched) > 1
    /\ ret.matched[1] = <<112,121,116,104,111,110>> (* python *)

Sentinel == <<78,111,116,32,102,111,117,110,100>> (* Not found *)

\* C14: field extraction and keyword matching are total with defined
\* degenerate outputs: extract_all gives, for every text, a name, an email
\* and a phone that are non-empty strings and a skill collection, and on the
\* empty text the not-found sentinel for name, email and phone and an empty
\* skill collection; get_matching_keywords on an empty job text returns empty
\* matched and missing with match_count = 0 and total_required = 0.
C14_DegenerateOutputs ==
    /\ fn = "extract_all" =>
          /\ DOMAIN ret = {"name", "email", "phone", "skills"}
          /\ ret.name # << >> /\ ret.email # << >> /\ ret.phone # << >>
          /\ IsABag(ret.skills)
          /\ resume_text = << >> =>
                /\ ret.name = Sentinel
                /\ ret.email = Sentinel
                /\ ret.phone = Sentinel
                /\ ret.skills = EmptyBag
    /\ (fn = "get_matching_keywords" /\ job_description = << >>) =>
          /\ ret.matched = << >>
          /\ ret.missing = << >>
          /\ ret.match_count = 0
          /\ ret.total_required = 0

\* extract_all was applied to the empty text
C14_Witness ==
    /\ fn = "extract_all"
    /\ resume_text = << >>
    /\ ret.name = Sentinel
    /\ ret.skills = EmptyBag

\* an input of the run is absent: no file, or a job description that is
\* empty or made of whitespace only
InputMissing ==
    \/ uploaded_file.kind = "none"
    \/ \A i \in DOMAIN job_description : job_description[i] \in SpaceChars

PipelineOrder == << "extract_text", "extract_all", "calculate_match_score",
                    "get_matching_keywords", "get_resume_suggestions" >>

\* C15: when Analyze is triggered with no uploaded file, or with a job
\* description that is empty or whitespace-only, an error message is shown,
\* no temp file is created and none of extract_text, extract_all,
\* calculate_match_score, get_matching_keywords and get_resume_suggestions is
\* invoked; the steps of the pipeline run, in that order, only when both
\* inputs are present.
C15_InputGating ==
    /\ InputMissing =>
          /\ calls = << >>
          /\ tmp_files = {} /\ tmp_path = << >>
          /\ shown = << >>
          /\ pc = "done" => Len(errors) = 1
          /\ pc # "done" => pc = "analyze" /\ errors = << >>
    /\ calls = SubSeq(PipelineOrder, 1, Len(calls))
    /\ pc = "done" => (errors # << >> \/ calls = PipelineOrder)

\* a run with a file and a whitespace-only job description has ended
C15_Witness ==
    /\ pc = "done"
    /\ uploaded_file.kind # "none"
    /\ job_description = <<32,10>> (*  \n *)
    /\ Len(errors) = 1
    /\ calls = << >>

=============================================================================
